---- MODULE Spec2Model ----
(***************************************************************************)
(* Voice CBT session page (frontend/src/pages/App.tsx) together with the   *)
(* voice and text input components it renders                              *)
(* (EnhancedVoiceInterface.tsx, TextInput), the session storage and the    *)
(* sign-in page around it, and the stand-alone voice components            *)
(* (SimpleVoiceInterface, HybridVoiceInterface, ActualVoiceInterface,      *)
(* RealVoiceInterface).                                                    *)
(*                                                                         *)
(* One action per event handler / callback.  React state updates made with *)
(* an updater function (setSessionState(prev => ...)) act on the latest    *)
(* state; a handler reading `sessionState.x` directly reads the value      *)
(* captured by the render that created the handler.  Promise continuations *)
(* after a resolved await run as microtasks, so a callback and the code    *)
(* that follows the await it resolves form one step.                       *)
(***************************************************************************)
EXTENDS Integers, Sequences, FiniteSets, TLC

\* ---------------------------------------------------------------- bounds
\* number of sendToBackend invocations explored
MaxTurns == 2
\* number of microphone requests (startRecording calls) explored
MaxStarts == 2
\* number of health probes in flight at a time
MaxProbes == 1
\* length of the list of voices the browser offers
MaxVoices == 2
\* number of values the currentEmotion prop takes when driven directly
MaxTags == 3
\* number of messages in a stored conversation
MaxStored == 3
\* last instant of the clock
MaxNow == 4
\* length of the log beyond which no further text is submitted
MaxLog == 3
\* SpeechRecognition objects one stand-alone component creates
MaxRecognizers == 2

Turns == 1..MaxTurns

\* ---------------------------------------------------------------- texts
\* A text is a sequence of characters; " " is whitespace, "a" is not.
Texts == { <<>>, <<" ">>, <<"a">> }

IsSpace(c) == c = " "

RECURSIVE TrimStart(_)
TrimStart(s) == IF s = <<>> THEN <<>>
                ELSE IF IsSpace(Head(s)) THEN TrimStart(Tail(s)) ELSE s

RECURSIVE TrimEnd(_)
TrimEnd(s) == IF s = <<>> THEN <<>>
              ELSE IF IsSpace(s[Len(s)]) THEN TrimEnd(SubSeq(s, 1, Len(s) - 1)) ELSE s

\* String.prototype.trim
Trim(s) == TrimEnd(TrimStart(s))

\* ---------------------------------------------------------------- messages
NoEmotion == "absent"

\* emotion values the responder may attach to a reply
ReplyEmotions == { "anxious", NoEmotion }

ReplyText == <<"r">>
DefaultReply == <<"d">>
ApologyText == <<"s">>
WelcomeText == <<"w">>
WelcomeBackText == <<"b">>

VARIABLE now        \* Date.now(): the clock, in ticks

\* ticks in a calendar day
TicksPerDay == 2

\* new Date(timestamp).toDateString(), as the number of the day; -1 stands for
\* "Invalid Date", the result for a timestamp that does not parse
toDateString(timestamp) == IF timestamp < 0 THEN -1 ELSE timestamp \div TicksPerDay

\* new Date().toDateString()
Today == toDateString(now)

\* Message (App.tsx interface Message), built when the message is created.
\* `turn` records which sendToBackend invocation the message belongs to (0
\* for greetings).  id: 'welcome' and 'welcome-back' for the greetings,
\* Date.now().toString() for a user message, (Date.now() + 1).toString() for
\* a system message of a turn.  timestamp: new Date().
Msg(ty, tn, c, e) ==
  [id |-> IF tn = 0 THEN (IF c = <<"b">> THEN "welcome-back" ELSE "welcome")
          ELSE IF ty = "user" THEN ToString(now) ELSE ToString(now + 1),
   type |-> ty, turn |-> tn, content |-> c, timestamp |-> now, emotion |-> e]

welcomeMessage == Msg("system", 0, WelcomeText, "neutral")

welcomeBackMessage == Msg("system", 0, WelcomeBackText, "neutral")

\* content: data.response_text || data.response || data.message || default
ReplyContent(body) == IF body = <<>> THEN DefaultReply ELSE body

\* useState<any>(null) of voiceAnalysis; seq counts the results set so far
NoAnalysis == [transcript |-> << >>, seq |-> 0]

\* ---------------------------------------------------------------- speakText voice selection
\* Names and language codes are sequences of characters.
Upper == << "A","B","C","D","E","F","G","H","I","J","K","L","M","N","O","P","Q","R","S","T","U","V","W","X","Y","Z" >>
Lower == << "a","b","c","d","e","f","g","h","i","j","k","l","m","n","o","p","q","r","s","t","u","v","w","x","y","z" >>

LowerChar(c) == IF \E i \in DOMAIN Upper : Upper[i] = c
               THEN Lower[CHOOSE i \in DOMAIN Upper : Upper[i] = c]
               ELSE c

\* String.prototype.toLowerCase
toLowerCase(s) == [i \in DOMAIN s |-> LowerChar(s[i])]

\* String.prototype.includes
includes(s, part) ==
  \E i \in 0..(Len(s) - Len(part)) : SubSeq(s, i + 1, i + Len(part)) = part

\* the result of Array.prototype.find when no voice satisfies the test
NoVoice == [name |-> << >>, lang |-> << >>]

\* speakText, priorityFemaleVoices
priorityFemaleVoices ==
  << << "M", "i", "c", "r", "o", "s", "o", "f", "t", " ", "Z", "i", "r", "a", " ", "D", "e", "s", "k", "t", "o", "p" >>,
     << "M", "i", "c", "r", "o", "s", "o", "f", "t", " ", "H", "a", "z", "e", "l", " ", "D", "e", "s", "k", "t", "o", "p" >>,
     << "G", "o", "o", "g", "l", "e", " ", "S", "u", "s", "a", "n" >>,
     << "G", "o", "o", "g", "l", "e", " ", "K", "a", "r", "e", "n" >>,
     << "G", "o", "o", "g", "l", "e", " ", "S", "a", "m", "a", "n", "t", "h", "a" >>,
     << "S", "a", "m", "a", "n", "t", "h", "a" >>,
     << "K", "a", "r", "e", "n" >>,
     << "S", "u", "s", "a", "n" >>,
     << "Z", "i", "r", "a" >>,
     << "H", "a", "z", "e", "l" >>,
     << "V", "i", "c", "t", "o", "r", "i", "a" >>,
     << "H", "e", "l", "e", "n" >>,
     << "D", "o", "n", "n", "a" >>,
     << "M", "i", "c", "h", "e", "l", "l", "e" >>,
     << "M", "i", "c", "r", "o", "s", "o", "f", "t", " ", "E", "v", "a", " ", "D", "e", "s", "k", "t", "o", "p" >>,
     << "M", "i", "c", "r", "o", "s", "o", "f", "t", " ", "C", "a", "t", "h", "e", "r", "i", "n", "e", " ", "D", "e", "s", "k", "t", "o", "p" >>,
     << "M", "i", "c", "r", "o", "s", "o", "f", "t", " ", "L", "i", "n", "d", "a", " ", "D", "e", "s", "k", "t", "o", "p" >>,
     << "G", "o", "o", "g", "l", "e", " ", "E", "m", "m", "a" >>,
     << "G", "o", "o", "g", "l", "e", " ", "A", "m", "y" >>,
     << "G", "o", "o", "g", "l", "e", " ", "L", "i", "s", "a" >>,
     << "G", "o", "o", "g", "l", "e", " ", "S", "a", "r", "a", "h" >>,
     << "G", "o", "o", "g", "l", "e", " ", "A", "n", "n", "a" >> >>

\* speakText, femaleNames
femaleNames ==
  << << "f", "e", "m", "a", "l", "e" >>,
     << "w", "o", "m", "a", "n" >>,
     << "l", "a", "d", "y" >>,
     << "g", "i", "r", "l" >>,
     << "s", "a", "m", "a", "n", "t", "h", "a" >>,
     << "k", "a", "r", "e", "n" >>,
     << "s", "u", "s", "a", "n" >>,
     << "m", "a", "r", "y" >>,
     << "j", "a", "n", "e" >>,
     << "l", "i", "s", "a" >>,
     << "a", "n", "n", "a" >>,
     << "s", "a", "r", "a", "h" >>,
     << "e", "m", "m", "a" >>,
     << "o", "l", "i", "v", "i", "a" >>,
     << "a", "v", "a" >>,
     << "i", "s", "a", "b", "e", "l", "l", "a" >>,
     << "s", "o", "p", "h", "i", "a" >>,
     << "c", "h", "a", "r", "l", "o", "t", "t", "e" >>,
     << "m", "i", "a" >>,
     << "a", "m", "e", "l", "i", "a" >>,
     << "z", "i", "r", "a" >>,
     << "h", "a", "z", "e", "l" >>,
     << "s", "u", "s", "a", "n" >>,
     << "k", "a", "r", "e", "n" >>,
     << "s", "a", "m", "a", "n", "t", "h", "a" >>,
     << "v", "i", "c", "t", "o", "r", "i", "a" >>,
     << "h", "e", "l", "e", "n" >>,
     << "d", "o", "n", "n", "a" >>,
     << "m", "i", "c", "h", "e", "l", "l", "e" >> >>

\* speakText, femaleLang
femaleLang ==
  << << "e", "n", "-", "u", "s", "-", "f", "e", "m", "a", "l", "e" >>,
     << "e", "n", "-", "g", "b", "-", "f", "e", "m", "a", "l", "e" >>,
     << "e", "n", "-", "a", "u", "-", "f", "e", "m", "a", "l", "e" >> >>

\* the names tested one by one after the two lists
femaleNameChecks ==
  << << "z", "i", "r", "a" >>,
     << "h", "a", "z", "e", "l" >>,
     << "s", "u", "s", "a", "n" >>,
     << "k", "a", "r", "e", "n" >>,
     << "s", "a", "m", "a", "n", "t", "h", "a" >> >>

\* the names of the alternative search
alternativeNames ==
  << << "f", "e", "m", "a", "l", "e" >>,
     << "w", "o", "m", "a", "n" >>,
     << "l", "a", "d", "y" >> >>

\* voices a browser may offer
Voice1 == [name |-> << "M", "i", "c", "r", "o", "s", "o", "f", "t", " ", "D", "a", "v", "i", "d", " ", "D", "e", "s", "k", "t", "o", "p" >>,
           lang |-> << "e", "n", "-", "U", "S" >>]

Voice2 == [name |-> << "M", "i", "c", "r", "o", "s", "o", "f", "t", " ", "Z", "i", "r", "a", " ", "D", "e", "s", "k", "t", "o", "p" >>,
           lang |-> << "e", "n", "-", "U", "S" >>]

Voice3 == [name |-> << "G", "o", "o", "g", "l", "e", " ", "U", "K", " ", "E", "n", "g", "l", "i", "s", "h", " ", "F", "e", "m", "a", "l", "e" >>,
           lang |-> << "e", "n", "-", "G", "B" >>]

VoiceCatalog == { Voice1, Voice2, Voice3 }

\* results of speechSynthesis.getVoices(): empty until the voices are loaded
VoiceLists == UNION { [1..n -> VoiceCatalog] : n \in 0..MaxVoices }

\* speechSynthesis.getVoices() of a browser whose voices are loaded
InstalledVoices == << Voice1, Voice2 >>

\* Array.prototype.find: the first element passing the test, or undefined;
\* test is the table of the test's result for each voice
Find(seq, test) ==
  IF \E i \in DOMAIN seq : test[seq[i]]
  THEN seq[CHOOSE i \in DOMAIN seq : test[seq[i]] /\ \A j \in 1..(i - 1) : ~test[seq[j]]]
  ELSE NoVoice

\* first search: a name containing one of the priority names
IsPriorityVoice(v) ==
  \E k \in DOMAIN priorityFemaleVoices :
    includes(toLowerCase(v.name), toLowerCase(priorityFemaleVoices[k]))

\* comprehensive search: female indicators in the name or the language code
IsFemaleVoice(v) ==
  LET name == toLowerCase(v.name)
      lang == toLowerCase(v.lang)
  IN \/ \E k \in DOMAIN femaleNames : includes(name, femaleNames[k])
     \/ \E k \in DOMAIN femaleLang : includes(lang, femaleLang[k])
     \/ \E k \in DOMAIN femaleNameChecks : includes(name, femaleNameChecks[k])

\* alternative search, run when the first two found nothing
IsAlternativeVoice(v) ==
  \E k \in DOMAIN alternativeNames : includes(toLowerCase(v.name), alternativeNames[k])

\* the three tests as tables over the voices a browser may offer (computed once)
priorityTest == [v \in VoiceCatalog |-> IsPriorityVoice(v)] @@ << >>
femaleTest == [v \in VoiceCatalog |-> IsFemaleVoice(v)] @@ << >>
alternativeTest == [v \in VoiceCatalog |-> IsAlternativeVoice(v)] @@ << >>

\* Numbers of voice parameters are written in hundredths: 90 is 0.9.
\* new SpeechSynthesisUtterance(text): the engine's default voice, pitch, rate
\* and volume 1
DefaultVoice == << >>
NewUtterance == [voice |-> DefaultVoice, pitch |-> 100, rate |-> 100, volume |-> 100]

\* no utterance has been created
NoUtterance == [voice |-> DefaultVoice, pitch |-> 0, rate |-> 0, volume |-> 0]

\* a selection that never picks a voice from the list
setFemaleVoiceIgnoresList(u, voiceList) ==
  [voice |-> u.voice, pitch |-> 140, rate |-> 90, volume |-> 80]

\* speakText's setFemaleVoice applied to utterance u with getVoices() = voiceList
setFemaleVoice(u, voiceList) ==
  LET priority == Find(voiceList, priorityTest)
      femaleVoice == IF priority # NoVoice THEN priority ELSE Find(voiceList, femaleTest)
      alternativeVoice == Find(voiceList, alternativeTest)
  IN IF femaleVoice # NoVoice
     THEN [voice |-> femaleVoice.name, pitch |-> 110, rate |-> 90, volume |-> 80]
     ELSE IF alternativeVoice # NoVoice
          THEN [voice |-> alternativeVoice.name, pitch |-> 120, rate |-> 90, volume |-> 80]
          ELSE [voice |-> u.voice, pitch |-> 140, rate |-> 90, volume |-> 80]

\* the parameters setFemaleVoice gives a new utterance, by list of voices
\* (a table, computed once)
configured == [voiceList \in VoiceLists |-> setFemaleVoice(NewUtterance, voiceList)] @@ << >>

\* ---------------------------------------------------------------- EnhancedVoiceInterface voice settings
KnownEmotions == { "sad", "angry", "anxious", "happy", "neutral" }

\* emotionVoiceConfigs (rate in words per minute, volume and pitch in hundredths)
emotionVoiceConfigs ==
  [e \in KnownEmotions |->
     CASE e = "sad"     -> [rate |-> 150, volume |-> 80, pitch |-> 90]
       [] e = "angry"   -> [rate |-> 160, volume |-> 70, pitch |-> 80]
       [] e = "anxious" -> [rate |-> 170, volume |-> 85, pitch |-> 100]
       [] e = "happy"   -> [rate |-> 200, volume |-> 95, pitch |-> 110]
       [] e = "neutral" -> [rate |-> 180, volume |-> 90, pitch |-> 100]]

\* useState<VoiceSettings> initial value
InitialVoiceSettings == [rate |-> 180, volume |-> 90, pitch |-> 100, emotion |-> "neutral"]

\* the effect on [currentEmotion]: a known tag installs its table entry, any
\* other value leaves the settings as they are
EmotionEffect(settings, currentEmotion) ==
  IF currentEmotion # NoEmotion /\ currentEmotion \in DOMAIN emotionVoiceConfigs
  THEN [rate |-> emotionVoiceConfigs[currentEmotion].rate,
        volume |-> emotionVoiceConfigs[currentEmotion].volume,
        pitch |-> emotionVoiceConfigs[currentEmotion].pitch,
        emotion |-> currentEmotion]
  ELSE settings

\* emotion tags a message may carry: the known ones, one the table does not
\* hold, and none
EmotionTags == KnownEmotions \cup { "calm", NoEmotion }

\* the currentEmotion prop: messages[messages.length - 1]?.emotion
currentEmotion(log) == IF log = << >> THEN NoEmotion ELSE log[Len(log)].emotion

\* voiceSettings of the instance rendered for the given mode and log after a
\* render with a new log; no instance exists in text mode
SettingsAfter(settings, mode, log) ==
  IF mode = "voice" THEN EmotionEffect(settings, currentEmotion(log)) ELSE settings

\* ---------------------------------------------------------------- state
VARIABLES
  messages,        \* useState<Message[]>
  sessionState,    \* useState<SessionState>
  isLoggedIn,      \* user && isLoggedIn from the session context
  nextTurn,        \* number of sendToBackend invocations so far
  pc,              \* per invocation: "none", "fetch" (awaiting the response), "lost" (no
                   \* response will come), "speaking" (awaiting speakText), and returned:
                   \* "replied" (try block completed), "failed" (catch, the request
                   \* failed), "threw" (catch, speakText threw)
  closureSpeaking, \* per invocation: sessionState.isSpeaking captured by its closure
  speechSynthesisRef, \* useRef<SpeechSynthesisUtterance>: 0 (null) or the turn of the utterance
  synthSupported,  \* whether SpeechSynthesisUtterance / speechSynthesis exist
  synthQueue,      \* utterances queued in speechSynthesis (head is being spoken)
  synthCancelled,  \* utterances removed by cancel() whose error event is still to fire
  probes,          \* checkBackendConnection fetches in flight
  starts,          \* number of startRecording calls so far
  mediaRecorder,   \* EnhancedVoiceInterface mediaRecorderRef: "null" | "recording" | "inactive"
  grants,          \* getUserMedia calls awaiting the user's answer, by mounted / unmounted instance
  orphanStreams,   \* recorders still recording that no ref points to
  blobs,           \* processAudioBlob calls awaiting the backend, by mounted / unmounted instance
  voiceAnalysis,   \* useState voiceAnalysis: NoAnalysis (null) or the last analysis result
  recog,           \* App speechRecognitionRef's recognizer: "idle" | "listening" | "stopping" | "ending"
  isGeneratingVoice, \* useState isGeneratingVoice: the tts fetch of the mounted instance is in flight
  audioPlaying,    \* the <audio> element is playing a generated file
  voiceSettings,   \* EnhancedVoiceInterface useState<VoiceSettings> of the mounted instance
  utterance,       \* parameters of the utterance speechSynthesisRef points to
  onvoiceschanged, \* speechSynthesis.onvoiceschanged: 0 (null) or the turn whose utterance it configures
  voices,          \* speechSynthesis.getVoices()
  savedConversations, \* the item localStorage held under the user's key when the page was opened
  emotionProps,    \* values the currentEmotion prop has taken, when driven directly
  localStorage,    \* window.localStorage of the site's origin: the item under each key
  quotaExceeded,   \* localStorage.setItem throws (the origin's quota is used up)
  user,            \* useUserSession's user: the id of the logged-in user, or "null"
  page,            \* what the browser shows: "index" (a page other than /app), "app", or
                   \* "blank" (React removed the tree after an uncaught error)
  widget,          \* which of the stand-alone voice components is mounted: "none", "simple"
                   \* (SimpleVoiceInterface), "hybrid" (HybridVoiceInterface), "actual"
                   \* (ActualVoiceInterface), "real" (RealVoiceInterface)
  isRecording,     \* the component's useState isRecording
  transcript,      \* the component's useState transcript
  error,           \* useState error of HybridVoiceInterface / ActualVoiceInterface
  showTextInput,   \* HybridVoiceInterface useState showTextInput
  speechRecognitionFailed, \* HybridVoiceInterface useState speechRecognitionFailed
  recognitionRef,  \* recognitionRef.current: 0 (null) or the recognizer it points to
  recognizers,     \* each SpeechRecognition object the effect created: "unborn", "idle",
                   \* "starting" (start() called), "capturing", "stopping" (stop() called),
                   \* "ending" (final result or error delivered, end event to come)
  submittedTexts,  \* the texts the component has passed to onTextSubmit
  isProcessingAudio, \* RealVoiceInterface useState isProcessingAudio
  mediaRecorderRef,  \* RealVoiceInterface mediaRecorderRef: "null" | "recording" |
                     \* "stopping" (stop() called, stop event queued) | "inactive"
  micRequests,     \* RealVoiceInterface getUserMedia calls awaiting the user's answer
  transcriptions   \* RealVoiceInterface /api/v1/process requests in flight

turnVars == << nextTurn, pc, closureSpeaking >>
synthVars == << speechSynthesisRef, synthQueue, synthCancelled, utterance, onvoiceschanged >>
probeVars == << probes >>
captureVars == << starts, mediaRecorder, grants, orphanStreams, blobs, voiceAnalysis >>
ttsVars == << isGeneratingVoice, audioPlaying >>
\* what the browser offers and what the page was opened with
envVars == << synthSupported, voices, savedConversations, emotionProps >>
\* the clock, the storage quota and the logged-in user
hostVars == << now, quotaExceeded, user >>
\* the stand-alone components built on SpeechRecognition
listenVars == << widget, isRecording, transcript, error, showTextInput, speechRecognitionFailed,
                recognitionRef, recognizers, submittedTexts >>
\* RealVoiceInterface's own state
recorderVars == << isProcessingAudio, mediaRecorderRef, micRequests, transcriptions >>
widgetVars == << listenVars, recorderVars >>
\* everything outside the page's own state
siteVars == << localStorage, page, hostVars >>

vars == << messages, sessionState, isLoggedIn, nextTurn, pc, closureSpeaking,
           speechSynthesisRef, synthSupported, synthQueue, synthCancelled,
           probes, starts, mediaRecorder, grants, orphanStreams,
           blobs, voiceAnalysis, recog, isGeneratingVoice, audioPlaying,
           voiceSettings, utterance, onvoiceschanged, voices, savedConversations,
           emotionProps, localStorage, quotaExceeded, user, page, now, widgetVars >>

\* ---------------------------------------------------------------- storage
\* ids of the accounts that use this browser
Users == { "u1", "u2" }

\* `voice_cbt_conversations_${user.id}`
ConversationsKey(u) == << "voice_cbt_conversations", u >>

\* the keys the site uses
Keys == { << "voice_cbt_user" >>, << "voice_cbt_session" >>, << "voice_cbt_conversations" >> }
          \cup { ConversationsKey(u) : u \in Users }

\* getItem returns null: nothing is stored under the key
NoItem == [kind |-> "none", log |-> << >>]

\* JSON.stringify(messages): every field of a message survives the round
\* trip through JSON.parse; a Date becomes the ISO string of the same instant
\* (the Message fields are read through new Date(timestamp) only)
stringify(log) == [kind |-> "json", log |-> log]

\* JSON.stringify(userData) and the text 'active'
UserItem(u) == [kind |-> "user", log |-> << u >>]
ActiveItem == [kind |-> "active", log |-> << >>]

\* localStorage.setItem(key, item) / removeItem(key)
setItem(store, key, item) == [store EXCEPT ![key] = item]
removeItem(store, key) == [store EXCEPT ![key] = NoItem]

\* a browser that holds nothing of the site
EmptyStore == [k \in Keys |-> NoItem]

\* the session keys as login leaves them
LoggedInStore(store, u) ==
  setItem(setItem(store, << "voice_cbt_user" >>, UserItem(u)), << "voice_cbt_session" >>, ActiveItem)

\* a save effect that never writes
SaveEffectSkipsWrite(store) == localStorage' = store /\ page' = page

\* The save effect, which runs after the render that follows a setMessages:
\* setItem under the user's key when the log is not empty.  A throwing
\* setItem is an uncaught error in an effect, and no error boundary is
\* mounted: React removes the whole tree.  `store` is localStorage as the
\* handler left it.
SaveEffect(store) ==
  IF isLoggedIn /\ Len(messages') > 0
    THEN IF quotaExceeded
           THEN localStorage' = store /\ page' = "blank"
           ELSE /\ localStorage' = setItem(store, ConversationsKey(user), stringify(messages'))
                /\ page' = page
    ELSE localStorage' = store /\ page' = page

\* ---------------------------------------------------------------- initial state
\* the useState / useRef initial values of the stand-alone voice components
WidgetState ==
  /\ isRecording = FALSE
  /\ transcript = << >>
  /\ error = << >>
  /\ showTextInput = FALSE
  /\ speechRecognitionFailed = FALSE
  /\ recognitionRef = 0
  /\ recognizers = [r \in 1..MaxRecognizers |-> "unborn"]
  /\ submittedTexts = {}
  /\ isProcessingAudio = FALSE
  /\ mediaRecorderRef = "null"
  /\ micRequests = 0
  /\ transcriptions = 0

\* App.tsx and EnhancedVoiceInterface useState / useRef initial values, with
\* the probe of the mount effect in flight
PageState ==
  /\ sessionState = [ isListening |-> FALSE, isProcessing |-> FALSE, isSpeaking |-> FALSE,
                      inputMode |-> "voice", error |-> "null",
                      connectionStatus |-> "connecting" ]
  /\ nextTurn = 0
  /\ pc = [t \in Turns |-> "none"]
  /\ closureSpeaking = [t \in Turns |-> FALSE]
  /\ speechSynthesisRef = 0
  /\ synthSupported \in BOOLEAN
  /\ synthQueue = << >>
  /\ synthCancelled = {}
  /\ probes = 1
  /\ starts = 0
  /\ mediaRecorder = "null"
  /\ grants = [live |-> 0, dead |-> 0]
  /\ orphanStreams = 0
  /\ blobs = [live |-> 0, dead |-> 0]
  /\ voiceAnalysis = NoAnalysis
  /\ recog = "idle"
  /\ isGeneratingVoice = FALSE
  /\ audioPlaying = FALSE
  /\ utterance = NoUtterance
  /\ onvoiceschanged = 0

\* App.tsx renders none of the stand-alone components
AppState == widget = "none" /\ WidgetState /\ PageState

\* the page mounted for a logged-in user
MountState == isLoggedIn = TRUE /\ AppState


\* The page opened by a logged-in user with no stored conversation, in a
\* browser whose voices are loaded: the load effect has put the welcome
\* message into the log and the voice interface has rendered with it.
OpenedPage ==
  /\ now = 0
  /\ user = "u1"
  /\ page = "app"
  /\ quotaExceeded = FALSE
  /\ savedConversations = NoItem
  /\ messages = << welcomeMessage >>
  /\ localStorage = setItem(LoggedInStore(EmptyStore, "u1"), ConversationsKey("u1"),
                            stringify(<< welcomeMessage >>))
  /\ voiceSettings = SettingsAfter(InitialVoiceSettings, "voice", << welcomeMessage >>)
  /\ voices = InstalledVoices
  /\ emotionProps = << >>

Init == MountState /\ OpenedPage

\* ---------------------------------------------------------------- responder
\* outcomes of the fetch in sendToBackend that reach the catch block
ResponderFailures == { "network", "status", "badjson" }

\* well-formed 2xx bodies: reply text and emotion
Replies == { [text |-> ReplyText, emotion |-> "anxious"],
             [text |-> << >>, emotion |-> NoEmotion] }

\* sendToBackend, first statement
BeginProcessing(s) == [s EXCEPT !.isProcessing = TRUE, !.error = "null"]

\* the catch block without the connection status update
CatchStateKeepsConnection(s, msg) == [s EXCEPT !.error = msg]

\* sendToBackend, catch block state update
CatchState(s, msg) == [s EXCEPT !.connectionStatus = "disconnected", !.error = msg]

\* sendToBackend, finally block
FinallyState(s) == [s EXCEPT !.isProcessing = FALSE]

\* a sendToBackend that marks the connection connected after a spoken reply
ClearErrorReconnects(s) == [s EXCEPT !.error = "null", !.connectionStatus = "connected"]

\* sendToBackend, after the awaited speakText resolved
ClearError(s) == [s EXCEPT !.error = "null"]

\* utterance.onend / utterance.onerror
SpeechOver(s) == [s EXCEPT !.isSpeaking = FALSE]

\* sendToBackend up to the awaited fetch: called by handleTextInput and
\* handleVoiceInput right after they appended the user message.
SendToBackend(content, capturedSpeaking) ==
  /\ nextTurn < MaxTurns
  /\ LET t == nextTurn + 1 IN
       /\ messages' = Append(messages, Msg("user", t, content, NoEmotion))
       /\ voiceSettings' = SettingsAfter(voiceSettings, sessionState.inputMode, messages')
       /\ sessionState' = BeginProcessing(sessionState)
       /\ nextTurn' = t
       /\ pc' = [pc EXCEPT ![t] = "fetch"]
       /\ closureSpeaking' = [closureSpeaking EXCEPT ![t] = capturedSpeaking]
       /\ SaveEffect(localStorage)
       /\ UNCHANGED << hostVars, widgetVars >>

\* handleTextInput without the check of the trimmed text
handleTextInputUnchecked(text, capturedSpeaking) == SendToBackend(text, capturedSpeaking)

\* handleTextInput(text): the closure of the render that passed it down
handleTextInput(text, capturedSpeaking) ==
  IF Trim(text) = << >>
  THEN UNCHANGED << messages, siteVars, widgetVars, voiceSettings, sessionState, turnVars >>
  ELSE SendToBackend(text, capturedSpeaking)

\* handleVoiceInput(transcript): called from the recognizer's onresult, which
\* the mount effect bound to the first render's closure
handleVoiceInput(heard) ==
  IF Trim(heard) = << >>
  THEN UNCHANGED << messages, siteVars, widgetVars, voiceSettings, sessionState, turnVars >>
  ELSE SendToBackend(heard, FALSE)

\* TextInput.handleSubmit: message.trim() && !disabled, onSend(message.trim())
TextSubmit(message) ==
  /\ sessionState.inputMode = "text"
  /\ Trim(message) # << >>
  /\ ~(sessionState.isProcessing \/ sessionState.isSpeaking)
  /\ handleTextInput(Trim(message), sessionState.isSpeaking)
  /\ UNCHANGED << isLoggedIn, envVars, synthVars, probeVars, captureVars, recog, ttsVars >>

\* the catch and finally blocks of sendToBackend for invocation t
CatchAndFinally(t, msgs, s, msg) ==
  /\ messages' = Append(msgs, Msg("system", t, ApologyText, NoEmotion))
  /\ voiceSettings' = SettingsAfter(voiceSettings, s.inputMode, messages')
  /\ sessionState' = FinallyState(CatchState(s, msg))
  /\ pc' = [pc EXCEPT ![t] = IF msg \in ResponderFailures THEN "failed" ELSE "threw"]
  /\ SaveEffect(localStorage)
  /\ UNCHANGED << hostVars, widgetVars >>

\* fetch rejected, status not ok, or response.json() rejected
ResponderFail(t, kind) ==
  /\ pc[t] = "fetch"
  /\ CatchAndFinally(t, messages, sessionState, kind)
  /\ UNCHANGED << isLoggedIn, nextTurn, closureSpeaking, envVars, synthVars,
                  probeVars, captureVars, recog, ttsVars >>

\* the request never gets a response; sendToBackend sets no timer
ResponderLost(t) ==
  /\ pc[t] = "fetch"
  /\ pc' = [pc EXCEPT ![t] = "lost"]
  /\ UNCHANGED << messages, siteVars, widgetVars, voiceSettings, sessionState, isLoggedIn, nextTurn, closureSpeaking,
                  envVars, synthVars, probeVars, captureVars, recog, ttsVars >>

\* 2xx response with a JSON body: append the reply, then speakText(content)
ResponderReply(t, r) ==
  /\ pc[t] = "fetch"
  /\ LET withReply == Append(messages, Msg("system", t, ReplyContent(r.text), r.emotion)) IN
     IF closureSpeaking[t]
     THEN \* speakText resolves at once
          /\ messages' = withReply
          /\ voiceSettings' = SettingsAfter(voiceSettings, sessionState.inputMode, withReply)
          /\ sessionState' = FinallyState(ClearError(sessionState))
          /\ pc' = [pc EXCEPT ![t] = "replied"]
          /\ SaveEffect(localStorage)
          /\ UNCHANGED << synthVars, hostVars, widgetVars >>
     ELSE IF ~synthSupported
     THEN \* new SpeechSynthesisUtterance throws after isSpeaking was set
          /\ CatchAndFinally(t, withReply, [sessionState EXCEPT !.isSpeaking = TRUE], "synthesis")
          /\ UNCHANGED synthVars
     ELSE /\ messages' = withReply
          /\ voiceSettings' = SettingsAfter(voiceSettings, sessionState.inputMode, withReply)
          /\ sessionState' = [sessionState EXCEPT !.isSpeaking = TRUE]
          /\ utterance' = configured[voices]
          /\ onvoiceschanged' = IF voices = << >> THEN t ELSE onvoiceschanged
          /\ synthCancelled' = IF speechSynthesisRef # 0
                               THEN synthCancelled \cup { synthQueue[i] : i \in DOMAIN synthQueue }
                               ELSE synthCancelled
          /\ synthQueue' = IF speechSynthesisRef # 0 THEN << t >> ELSE Append(synthQueue, t)
          /\ speechSynthesisRef' = t
          /\ pc' = [pc EXCEPT ![t] = "speaking"]
          /\ SaveEffect(localStorage)
          /\ UNCHANGED << hostVars, widgetVars >>
  /\ UNCHANGED << isLoggedIn, nextTurn, closureSpeaking, envVars,
                  probeVars, captureVars, recog, ttsVars >>

\* utterance.onend / onerror handler followed by the rest of sendToBackend
AfterSpeech(t) ==
  /\ sessionState' = FinallyState(ClearError(SpeechOver(sessionState)))
  /\ pc' = [pc EXCEPT ![t] = "replied"]

\* the utterance being spoken finishes
UtteranceEnd ==
  /\ synthQueue # << >>
  /\ AfterSpeech(Head(synthQueue))
  /\ synthQueue' = Tail(synthQueue)
  /\ UNCHANGED << messages, siteVars, widgetVars, voiceSettings, isLoggedIn, nextTurn, closureSpeaking, envVars,
                  speechSynthesisRef, synthCancelled, utterance, onvoiceschanged, probeVars,
                  captureVars, recog, ttsVars >>

\* the engine fails on the utterance being spoken
UtteranceError ==
  /\ synthQueue # << >>
  /\ AfterSpeech(Head(synthQueue))
  /\ synthQueue' = Tail(synthQueue)
  /\ UNCHANGED << messages, siteVars, widgetVars, voiceSettings, isLoggedIn, nextTurn, closureSpeaking, envVars,
                  speechSynthesisRef, synthCancelled, utterance, onvoiceschanged, probeVars,
                  captureVars, recog, ttsVars >>

\* the error event of an utterance that speechSynthesis.cancel() removed
UtteranceCancelled(t) ==
  /\ t \in synthCancelled
  /\ AfterSpeech(t)
  /\ synthCancelled' = synthCancelled \ { t }
  /\ UNCHANGED << messages, siteVars, widgetVars, voiceSettings, isLoggedIn, nextTurn, closureSpeaking, envVars,
                  speechSynthesisRef, synthQueue, utterance, onvoiceschanged, probeVars,
                  captureVars, recog, ttsVars >>

\* the voiceschanged event: the voices are loaded; the handler speakText left
\* behind runs setFemaleVoice on its utterance and removes itself
VoicesChanged(voiceList) ==
  /\ voices = << >>
  /\ voiceList # << >>
  /\ voices' = voiceList
  /\ IF onvoiceschanged # 0
     THEN /\ utterance' = IF onvoiceschanged = speechSynthesisRef
                          THEN setFemaleVoice(utterance, voiceList)
                          ELSE utterance
          /\ onvoiceschanged' = 0
     ELSE UNCHANGED << utterance, onvoiceschanged >>
  /\ UNCHANGED << messages, siteVars, widgetVars, voiceSettings, sessionState, isLoggedIn, turnVars, synthSupported,
                  savedConversations, emotionProps, speechSynthesisRef, synthQueue,
                  synthCancelled, probeVars, captureVars, recog, ttsVars >>

\* ---------------------------------------------------------------- page controls
\* toggleInputMode; its button is disabled while disconnected.  Leaving voice
\* mode unmounts EnhancedVoiceInterface (no cleanup effect): its refs and
\* state are dropped, its recorder keeps recording, its pending promises
\* still settle; entering voice mode mounts a fresh instance.
toggleInputMode ==
  /\ sessionState.connectionStatus # "disconnected"
  /\ sessionState' = [sessionState EXCEPT
                        !.inputMode = IF sessionState.inputMode = "voice" THEN "text" ELSE "voice",
                        !.isListening = FALSE]
  /\ IF sessionState.inputMode = "voice"
     THEN /\ mediaRecorder' = "null"
          /\ orphanStreams' = orphanStreams + (IF mediaRecorder = "recording" THEN 1 ELSE 0)
          /\ grants' = [live |-> 0, dead |-> grants.dead + grants.live]
          /\ blobs' = [live |-> 0, dead |-> blobs.dead + blobs.live]
          /\ voiceAnalysis' = NoAnalysis
          /\ isGeneratingVoice' = FALSE
          /\ audioPlaying' = FALSE
          /\ voiceSettings' = InitialVoiceSettings
          /\ UNCHANGED starts
     ELSE /\ voiceSettings' = SettingsAfter(InitialVoiceSettings, "voice", messages)
          /\ UNCHANGED << captureVars, ttsVars >>
  /\ UNCHANGED << messages, siteVars, widgetVars, isLoggedIn, turnVars, envVars, synthVars, probeVars, recog >>

\* a clearChat that puts the greeting in front of the log instead of replacing it
clearChatKeepsEntries ==
  /\ isLoggedIn
  /\ messages' = << welcomeMessage >> \o messages
  /\ voiceSettings' = SettingsAfter(voiceSettings, sessionState.inputMode, messages')
  /\ SaveEffect(removeItem(localStorage, ConversationsKey(user)))
  /\ UNCHANGED << hostVars, widgetVars, sessionState, isLoggedIn, turnVars, envVars, synthVars,
                  probeVars, captureVars, recog, ttsVars >>

\* clearChat: removeItem, setMessages([welcomeMessage]), and the save effect
\* of the render that follows
clearChat ==
  /\ isLoggedIn
  /\ messages' = << welcomeMessage >>
  /\ voiceSettings' = SettingsAfter(voiceSettings, sessionState.inputMode, messages')
  /\ SaveEffect(removeItem(localStorage, ConversationsKey(user)))
  /\ UNCHANGED << hostVars, widgetVars, sessionState, isLoggedIn, turnVars, envVars, synthVars,
                  probeVars, captureVars, recog, ttsVars >>

\* ---------------------------------------------------------------- health probe
ProbeOutcomes == { "ok", "notok", "unreachable", "aborted" }

\* a probe that reports a connection whatever the response was
ProbeStateAlwaysConnected(s, outcome) ==
  [s EXCEPT !.connectionStatus = "connected", !.error = "null"]

\* checkBackendConnection, after the awaited fetch: a 2xx response, another
\* response, and the catch block for a rejected fetch (network failure, or the
\* abort of the 5 s timer)
ProbeState(s, outcome) ==
  IF outcome = "ok" THEN [s EXCEPT !.connectionStatus = "connected", !.error = "null"]
  ELSE IF outcome = "notok"
       THEN [s EXCEPT !.connectionStatus = "disconnected", !.error = "probe-notok"]
       ELSE [s EXCEPT !.connectionStatus = "disconnected", !.error = "probe-unreachable"]

\* "Retry Connection" button, rendered while disconnected
RetryConnection ==
  /\ sessionState.connectionStatus = "disconnected"
  /\ probes < MaxProbes
  /\ probes' = probes + 1
  /\ UNCHANGED << messages, siteVars, widgetVars, voiceSettings, sessionState, isLoggedIn, turnVars, envVars, synthVars,
                  captureVars, recog, ttsVars >>

\* the probe's fetch settles (response, network failure or the 5 s abort)
ProbeDone(outcome) ==
  /\ probes > 0
  /\ probes' = probes - 1
  /\ sessionState' = ProbeState(sessionState, outcome)
  /\ UNCHANGED << messages, siteVars, widgetVars, voiceSettings, isLoggedIn, turnVars, envVars, synthVars,
                  captureVars, recog, ttsVars >>

\* ---------------------------------------------------------------- EnhancedVoiceInterface capture
\* the round button is disabled while isProcessing || isSpeaking
CaptureButtonEnabled ==
  /\ sessionState.inputMode = "voice"
  /\ ~(sessionState.isProcessing \/ sessionState.isSpeaking)

\* startRecording up to the awaited getUserMedia
startRecording ==
  /\ CaptureButtonEnabled
  /\ ~sessionState.isListening
  /\ starts < MaxStarts
  /\ starts' = starts + 1
  /\ grants' = [grants EXCEPT !.live = @ + 1]
  /\ UNCHANGED << messages, siteVars, widgetVars, voiceSettings, sessionState, isLoggedIn, turnVars, envVars, synthVars,
                  probeVars, mediaRecorder, orphanStreams, blobs, voiceAnalysis, recog, ttsVars >>

\* getUserMedia resolved for the mounted instance: new MediaRecorder into the
\* ref, start(), onVoiceStart()
MicGranted ==
  /\ grants.live > 0
  /\ grants' = [grants EXCEPT !.live = @ - 1]
  /\ orphanStreams' = orphanStreams + (IF mediaRecorder = "recording" THEN 1 ELSE 0)
  /\ mediaRecorder' = "recording"
  /\ sessionState' = [sessionState EXCEPT !.isListening = TRUE]
  /\ UNCHANGED << messages, siteVars, widgetVars, voiceSettings, isLoggedIn, turnVars, envVars, synthVars, probeVars,
                  starts, blobs, voiceAnalysis, recog, ttsVars >>

\* getUserMedia resolved for an instance that has been unmounted meanwhile
MicGrantedUnmounted ==
  /\ grants.dead > 0
  /\ grants' = [grants EXCEPT !.dead = @ - 1]
  /\ orphanStreams' = orphanStreams + 1
  /\ sessionState' = [sessionState EXCEPT !.isListening = TRUE]
  /\ UNCHANGED << messages, siteVars, widgetVars, voiceSettings, isLoggedIn, turnVars, envVars, synthVars, probeVars,
                  starts, mediaRecorder, blobs, voiceAnalysis, recog, ttsVars >>

\* getUserMedia rejected (permission denied, no device): console.error only
MicDenied(inst) ==
  /\ grants[inst] > 0
  /\ grants' = [grants EXCEPT ![inst] = @ - 1]
  /\ UNCHANGED << messages, siteVars, widgetVars, voiceSettings, sessionState, isLoggedIn, turnVars, envVars, synthVars,
                  probeVars, starts, mediaRecorder, orphanStreams, blobs, voiceAnalysis,
                  recog, ttsVars >>

\* stopRecording calling onVoiceStop whatever the recorder's state
stopRecordingAlwaysNotifies ==
  /\ CaptureButtonEnabled
  /\ sessionState.isListening
  /\ sessionState' = [sessionState EXCEPT !.isListening = FALSE]
  /\ IF mediaRecorder = "recording"
     THEN /\ mediaRecorder' = "inactive"
          /\ blobs' = [blobs EXCEPT !.live = @ + 1]
     ELSE UNCHANGED << mediaRecorder, blobs >>
  /\ UNCHANGED << messages, siteVars, widgetVars, voiceSettings, isLoggedIn, turnVars, envVars, synthVars, probeVars,
                  starts, grants, orphanStreams, voiceAnalysis, recog, ttsVars >>

\* stopRecording (the button's handler while isListening); the recorder's
\* onstop then hands the blob to processAudioBlob
stopRecording ==
  /\ CaptureButtonEnabled
  /\ sessionState.isListening
  /\ IF mediaRecorder = "recording"
     THEN /\ mediaRecorder' = "inactive"
          /\ blobs' = [blobs EXCEPT !.live = @ + 1]
          /\ sessionState' = [sessionState EXCEPT !.isListening = FALSE]
     ELSE UNCHANGED << mediaRecorder, blobs, sessionState >>
  /\ UNCHANGED << messages, siteVars, widgetVars, voiceSettings, isLoggedIn, turnVars, envVars, synthVars, probeVars,
                  starts, grants, orphanStreams, voiceAnalysis, recog, ttsVars >>

\* transcripts the audio backend may return for a recording
Transcripts == { <<"a">> }

\* setVoiceAnalysis(result): a new analysis object holding the transcript
NewAnalysis(old, tr) == [transcript |-> tr, seq |-> old.seq + 1]

\* processAudioBlob, after the backend answered with the analysis of the
\* recording (transcript tr): setVoiceAnalysis(result); onTextSubmit('')
processAudioBlob(inst, tr) ==
  /\ blobs[inst] > 0
  /\ blobs' = [blobs EXCEPT ![inst] = @ - 1]
  /\ voiceAnalysis' = IF inst = "live" THEN NewAnalysis(voiceAnalysis, tr) ELSE voiceAnalysis
  /\ handleTextInput(<< >>, sessionState.isSpeaking)
  /\ UNCHANGED << isLoggedIn, envVars, synthVars, probeVars, starts, mediaRecorder,
                  grants, orphanStreams, recog, ttsVars >>

\* processAudioBlob when its fetch or response.json() rejects: nothing is caught
\* inside reader.onloadend, nothing else runs
processAudioBlobRejected(inst) ==
  /\ blobs[inst] > 0
  /\ blobs' = [blobs EXCEPT ![inst] = @ - 1]
  /\ UNCHANGED << messages, siteVars, widgetVars, voiceSettings, sessionState, isLoggedIn, turnVars, envVars, synthVars,
                  probeVars, starts, mediaRecorder, grants, orphanStreams, voiceAnalysis,
                  recog, ttsVars >>

\* ---------------------------------------------------------------- App speech recognition
RecognitionErrors == { "network", "not-allowed", "no-speech", "audio-capture" }

\* handleVoiceSphereClick
handleVoiceSphereClick ==
  /\ IF sessionState.isListening
     THEN \* speechRecognitionRef.current.stop()
          /\ recog' = IF recog = "listening" THEN "stopping" ELSE recog
          /\ UNCHANGED sessionState
     ELSE \* isListening: true, then start(), which throws unless the recognizer is idle
          /\ sessionState' = [sessionState EXCEPT !.isListening = TRUE]
          /\ recog' = IF recog = "idle" THEN "listening" ELSE recog
  /\ UNCHANGED << messages, siteVars, widgetVars, voiceSettings, isLoggedIn, turnVars, envVars, synthVars, probeVars,
                  captureVars, ttsVars >>

\* speechRecognition.onresult
RecognitionResult(tr) ==
  /\ recog \in { "listening", "stopping" }
  /\ recog' = "ending"
  /\ handleVoiceInput(tr)
  /\ UNCHANGED << isLoggedIn, envVars, synthVars, probeVars, captureVars, ttsVars >>

\* an onerror handler that lets 'no-speech' pass without a state change
RecognitionErrorIgnoresNoSpeech(kind) ==
  /\ recog \in { "listening", "stopping" }
  /\ recog' = "ending"
  /\ sessionState' = IF kind = "no-speech" THEN sessionState
                     ELSE [sessionState EXCEPT !.isListening = FALSE, !.error = kind]
  /\ UNCHANGED << messages, siteVars, widgetVars, voiceSettings, isLoggedIn, turnVars, envVars, synthVars, probeVars,
                  captureVars, ttsVars >>

\* speechRecognition.onerror
RecognitionError(kind) ==
  /\ recog \in { "listening", "stopping" }
  /\ recog' = "ending"
  /\ sessionState' = [sessionState EXCEPT !.isListening = FALSE, !.error = kind]
  /\ UNCHANGED << messages, siteVars, widgetVars, voiceSettings, isLoggedIn, turnVars, envVars, synthVars, probeVars,
                  captureVars, ttsVars >>

\* speechRecognition.onend
RecognitionEnd ==
  /\ recog \in { "stopping", "ending" }
  /\ recog' = "idle"
  /\ sessionState' = [sessionState EXCEPT !.isListening = FALSE]
  /\ UNCHANGED << messages, siteVars, widgetVars, voiceSettings, isLoggedIn, turnVars, envVars, synthVars, probeVars,
                  captureVars, ttsVars >>

\* ---------------------------------------------------------------- voice settings
\* EnhancedVoiceInterface re-rendered with a new value of its currentEmotion
\* prop: the effect on [currentEmotion] runs
EmotionPropChanged(tag) ==
  /\ sessionState.inputMode = "voice"
  /\ Len(emotionProps) < MaxTags
  /\ emotionProps' = Append(emotionProps, tag)
  /\ voiceSettings' = EmotionEffect(voiceSettings, tag)
  /\ UNCHANGED << messages, siteVars, widgetVars, sessionState, isLoggedIn, turnVars, synthSupported, voices,
                  savedConversations, synthVars, probeVars, captureVars, recog, ttsVars >>

\* ---------------------------------------------------------------- generated voice
\* responseText prop: the content of the last message
responseText == IF messages = << >> THEN << >> ELSE messages[Len(messages)].content

\* the speak button: generateEnhancedVoice(responseText) up to the awaited fetch
generateEnhancedVoice ==
  /\ sessionState.inputMode = "voice"
  /\ responseText # << >>
  /\ ~isGeneratingVoice
  /\ isGeneratingVoice' = TRUE
  /\ UNCHANGED << messages, siteVars, widgetVars, voiceSettings, sessionState, isLoggedIn, turnVars, envVars, synthVars,
                  probeVars, captureVars, recog, audioPlaying >>

\* the tts fetch settles: play the file when the backend produced one
TtsDone(success) ==
  /\ isGeneratingVoice
  /\ isGeneratingVoice' = FALSE
  /\ audioPlaying' = IF success THEN TRUE ELSE audioPlaying
  /\ UNCHANGED << messages, siteVars, widgetVars, voiceSettings, sessionState, isLoggedIn, turnVars, envVars, synthVars,
                  probeVars, captureVars, recog >>

\* the generated file finishes playing
AudioEnded ==
  /\ audioPlaying
  /\ audioPlaying' = FALSE
  /\ UNCHANGED << messages, siteVars, widgetVars, voiceSettings, sessionState, isLoggedIn, turnVars, envVars, synthVars,
                  probeVars, captureVars, recog, isGeneratingVoice >>

\* ---------------------------------------------------------------- specification
Instances == { "live", "dead" }

\* the responder
ResponderNext ==
  \/ \E t \in Turns : \E k \in ResponderFailures : ResponderFail(t, k)
  \/ \E t \in Turns : ResponderLost(t)
  \/ \E t \in Turns : \E r \in Replies : ResponderReply(t, r)

\* the synthesis engine's events for the utterance being spoken
SpeechNext ==
  \/ UtteranceEnd
  \/ UtteranceError

\* the page's own controls and the text box
PageNext ==
  \/ \E m \in Texts : TextSubmit(m)
  \/ toggleInputMode
  \/ clearChat
  \/ RetryConnection
  \/ \E o \in ProbeOutcomes : ProbeDone(o)

\* the page's speech recognizer
RecognitionNext ==
  \/ handleVoiceSphereClick
  \/ \E tr \in Texts : RecognitionResult(tr)
  \/ \E k \in RecognitionErrors : RecognitionError(k)
  \/ RecognitionEnd

\* EnhancedVoiceInterface
VoiceInterfaceNext ==
  \/ startRecording
  \/ MicGranted
  \/ MicGrantedUnmounted
  \/ \E inst \in Instances : MicDenied(inst)
  \/ stopRecording
  \/ \E inst \in Instances : \E tr \in Transcripts : processAudioBlob(inst, tr)
  \/ \E inst \in Instances : processAudioBlobRejected(inst)
  \/ generateEnhancedVoice
  \/ \E ok \in BOOLEAN : TtsDone(ok)
  \/ AudioEnded

\* every handler of the page and of the components it renders
Next ==
  \/ ResponderNext
  \/ SpeechNext
  \/ \E t \in Turns : UtteranceCancelled(t)
  \/ PageNext
  \/ RecognitionNext
  \/ VoiceInterfaceNext

Spec == Init /\ [][Next]_vars

\* The page as it is rendered, in a browser with speech synthesis: the header
\* buttons, the text box and EnhancedVoiceInterface.  Nothing rendered calls
\* handleVoiceSphereClick, so the page's recognizer is never started, turns
\* come from the text box only and never overlap.
RenderedInit == Init /\ synthSupported

RenderedNext == ResponderNext \/ SpeechNext \/ PageNext \/ VoiceInterfaceNext

RenderedSpec == RenderedInit /\ [][RenderedNext]_vars

\* the turn machine with its two input sources (text box, recognizer), the
\* mode toggle, clearChat and the mount probe
TurnSpecNext ==
  \/ ResponderNext
  \/ SpeechNext
  \/ \E t \in Turns : UtteranceCancelled(t)
  \/ RecognitionNext
  \/ \E m \in Texts : TextSubmit(m)
  \/ toggleInputMode
  \/ clearChat
  \/ \E o \in ProbeOutcomes : ProbeDone(o)

TurnSpec == Init /\ [][TurnSpecNext]_vars

\* the turn machine as TurnSpec has it, without clearChat and without the
\* error events of cancelled utterances
FailureNext ==
  \/ ResponderNext
  \/ SpeechNext
  \/ RecognitionNext
  \/ \E m \in Texts : TextSubmit(m)
  \/ toggleInputMode
  \/ \E o \in ProbeOutcomes : ProbeDone(o)

FailureSpec == Init /\ [][FailureNext]_vars

\* The two ways text reaches handleTextInput on the rendered page, the text
\* box and the recorder of EnhancedVoiceInterface, with the responder, the
\* synthesis engine, the mode toggle and the mount probe.
SubmitNext ==
  \/ ResponderNext
  \/ SpeechNext
  \/ \E m \in Texts : TextSubmit(m)
  \/ toggleInputMode
  \/ \E o \in ProbeOutcomes : ProbeDone(o)
  \/ startRecording
  \/ MicGranted
  \/ MicGrantedUnmounted
  \/ \E inst \in Instances : MicDenied(inst)
  \/ stopRecording
  \/ \E inst \in Instances : \E tr \in Transcripts : processAudioBlob(inst, tr)
  \/ \E inst \in Instances : processAudioBlobRejected(inst)

SubmitSpec == RenderedInit /\ [][SubmitNext]_vars

\* The two capture paths, the recorder of EnhancedVoiceInterface and the page's
\* recognizer, with the mode toggle, while the responder has not answered the
\* turns that recognition results start.
CaptureNext ==
  \/ startRecording
  \/ MicGranted
  \/ MicGrantedUnmounted
  \/ \E inst \in Instances : MicDenied(inst)
  \/ stopRecording
  \/ \E inst \in Instances : \E tr \in Transcripts : processAudioBlob(inst, tr)
  \/ \E inst \in Instances : processAudioBlobRejected(inst)
  \/ RecognitionNext
  \/ toggleInputMode

CaptureSpec == RenderedInit /\ [][CaptureNext]_vars

\* The text box, the responder and the synthesis engine in a browser with
\* speech synthesis, for every list of voices the browser may offer, loaded
\* before the page opens or while it is open.
VoiceInit ==
  /\ MountState
  /\ synthSupported
  /\ now = 0
  /\ user = "u1"
  /\ page = "app"
  /\ quotaExceeded = FALSE
  /\ savedConversations = NoItem
  /\ messages = << welcomeMessage >>
  /\ localStorage = setItem(LoggedInStore(EmptyStore, "u1"), ConversationsKey("u1"),
                            stringify(<< welcomeMessage >>))
  /\ voiceSettings = SettingsAfter(InitialVoiceSettings, "voice", << welcomeMessage >>)
  /\ voices \in VoiceLists
  /\ emotionProps = << >>

VoiceNext ==
  \/ \E m \in Texts : TextSubmit(m)
  \/ toggleInputMode
  \/ ResponderNext
  \/ SpeechNext
  \/ \E o \in ProbeOutcomes : ProbeDone(o)
  \/ \E voiceList \in VoiceLists : VoicesChanged(voiceList)

VoiceSpec == VoiceInit /\ [][VoiceNext]_vars

\* EnhancedVoiceInterface's voice settings under every sequence of values of
\* its currentEmotion prop
SettingsNext == \E tag \in EmotionTags : EmotionPropChanged(tag)

SettingsSpec == Init /\ [][SettingsNext]_vars

\* the instant at which the page of LoadSpec is opened: the start of the second day
LoadTime == TicksPerDay

\* the timestamps a stored message may carry: one that does not parse, one of
\* an earlier day, one of the day the page is opened
StoredTimestamps == { -1, 0, LoadTime }

\* messages of an earlier page load as JSON.parse returns them
StoredMessages ==
  { [id |-> ToString(ts), type |-> "user", turn |-> 0, content |-> << "a" >>,
     timestamp |-> ts, emotion |-> NoEmotion] : ts \in StoredTimestamps }
  \cup { [id |-> ToString(ts + 1), type |-> "system", turn |-> 0, content |-> ReplyText,
          timestamp |-> ts, emotion |-> "anxious"] : ts \in StoredTimestamps }

\* what localStorage.getItem may return: null or '', text that JSON.parse or
\* .some rejects, or the JSON of a log
StoredItems ==
  { NoItem, [kind |-> "garbage", log |-> << >>] }
    \cup { [kind |-> "json", log |-> l]
             : l \in UNION { [1..n -> StoredMessages] : n \in 0..MaxStored } }

\* parsedMessages.some(msg => new Date(msg.timestamp).toDateString() === today)
hasRecentMessages(parsedMessages) ==
  \E i \in 1..Len(parsedMessages) : toDateString(parsedMessages[i].timestamp) = Today

\* the load effect that greets whatever the stored dates are
LoadConversationAlwaysGreets(item) ==
  IF item.kind = "json" THEN << welcomeBackMessage >> \o item.log ELSE << welcomeMessage >>

\* the log the load effect sets for a stored item
LoadConversation(item) ==
  IF item.kind = "json"
    THEN IF ~hasRecentMessages(item.log)
           THEN << welcomeBackMessage >> \o item.log
           ELSE item.log
    ELSE << welcomeMessage >>

\* the first render of the page: useState([]) and nothing loaded yet
LoadInit ==
  /\ MountState
  /\ now = LoadTime
  /\ user = "u1"
  /\ page = "app"
  /\ quotaExceeded = FALSE
  /\ \E item \in StoredItems :
       localStorage = setItem(LoggedInStore(EmptyStore, "u1"), ConversationsKey("u1"), item)
  /\ savedConversations = NoItem
  /\ messages = << >>
  /\ voiceSettings = InitialVoiceSettings
  /\ voices = InstalledVoices
  /\ emotionProps = << >>

\* the load effect of the mount, the render that follows it, and the save
\* effect of that render
LoadEffect ==
  /\ isLoggedIn
  /\ messages = << >>
  /\ savedConversations' = localStorage[ConversationsKey(user)]
  /\ messages' = LoadConversation(savedConversations')
  /\ voiceSettings' = SettingsAfter(voiceSettings, sessionState.inputMode, messages')
  /\ SaveEffect(localStorage)
  /\ UNCHANGED << hostVars, widgetVars, sessionState, isLoggedIn, turnVars, synthVars, probeVars,
                  captureVars, recog, ttsVars, synthSupported, voices, emotionProps >>

LoadNext == LoadEffect

\* the page opened on every item the storage may hold
LoadSpec == LoadInit /\ [][LoadNext]_vars

\* The page's header controls, the text box, the responder and the synthesis
\* engine, where every probe's fetch settles: the 5 s timer aborts it at the
\* latest.  Nothing is assumed about when the user acts.
ProbeNext == PageNext \/ ResponderNext \/ SpeechNext

ProbeSpec ==
  RenderedInit /\ [][ProbeNext]_vars /\ WF_vars(\E o \in ProbeOutcomes : ProbeDone(o))

\* The same handlers in a browser with or without speech synthesis.
StatusSpec == Init /\ [][ProbeNext]_vars

\* ---------------------------------------------------------------- the site
\* the page's own state
appVars == << messages, voiceSettings, sessionState, turnVars, synthVars, probeVars,
              captureVars, recog, ttsVars, envVars, widgetVars >>

\* useUserSession.login(userData)
login(u) ==
  /\ page = "index"
  /\ user = "null"
  /\ user' = u
  /\ isLoggedIn' = TRUE
  /\ localStorage' = IF quotaExceeded THEN localStorage ELSE LoggedInStore(localStorage, u)
  /\ UNCHANGED << appVars, page, now, quotaExceeded >>

\* the three removeItem calls both logout functions make
LogoutStore(store) ==
  removeItem(removeItem(removeItem(store, << "voice_cbt_user" >>), << "voice_cbt_session" >>),
             << "voice_cbt_conversations" >>)

\* a logout that also removes the conversation stored for the user
logoutForgetsUser ==
  /\ page = "index"
  /\ user # "null"
  /\ user' = "null"
  /\ isLoggedIn' = FALSE
  /\ localStorage' = removeItem(LogoutStore(localStorage), ConversationsKey(user))
  /\ UNCHANGED << appVars, page, now, quotaExceeded >>

\* useUserSession.logout, the Navbar's Logout button
logout ==
  /\ page = "index"
  /\ user # "null"
  /\ user' = "null"
  /\ isLoggedIn' = FALSE
  /\ localStorage' = LogoutStore(localStorage)
  /\ UNCHANGED << appVars, page, now, quotaExceeded >>

\* useAuth.logout once signOut has resolved: the session context keeps its
\* user until the next page load
authLogout ==
  /\ page = "index"
  /\ localStorage' = LogoutStore(localStorage)
  /\ UNCHANGED << appVars, isLoggedIn, user, page, now, quotaExceeded >>

\* Navigation to /app (window.location.href): the session context is rebuilt
\* from the session keys (useUserSession checkSession) and the page mounts
\* for the user found there.
OpenApp ==
  /\ page = "index"
  /\ localStorage[<< "voice_cbt_session" >>].kind = "active"
  /\ localStorage[<< "voice_cbt_user" >>].kind = "user"
  /\ user' = localStorage[<< "voice_cbt_user" >>].log[1]
  /\ isLoggedIn' = TRUE
  /\ page' = "app"
  /\ UNCHANGED << appVars, localStorage, now, quotaExceeded >>

\* The user leaves /app or closes it: the page's state is discarded.  The
\* variables take the values the next mount starts from.
Unload ==
  /\ page \in { "app", "blank" }
  /\ page' = "index"
  /\ messages' = << >>
  /\ voiceSettings' = InitialVoiceSettings
  /\ savedConversations' = NoItem
  /\ sessionState' = [ isListening |-> FALSE, isProcessing |-> FALSE, isSpeaking |-> FALSE,
                       inputMode |-> "voice", error |-> "null",
                       connectionStatus |-> "connecting" ]
  /\ nextTurn' = 0
  /\ pc' = [t \in Turns |-> "none"]
  /\ closureSpeaking' = [t \in Turns |-> FALSE]
  /\ speechSynthesisRef' = 0
  /\ synthQueue' = << >>
  /\ synthCancelled' = {}
  /\ utterance' = NoUtterance
  /\ onvoiceschanged' = 0
  /\ UNCHANGED << isLoggedIn, user, localStorage, now, quotaExceeded, probeVars, captureVars,
                  recog, ttsVars, synthSupported, voices, emotionProps, widgetVars >>

\* the clock advances
Tick ==
  /\ now < MaxNow
  /\ now' = now + 1
  /\ UNCHANGED << appVars, isLoggedIn, user, page, localStorage, quotaExceeded >>

\* the origin's storage quota is used up
StorageFills ==
  /\ ~quotaExceeded
  /\ quotaExceeded' = TRUE
  /\ UNCHANGED << appVars, isLoggedIn, user, page, localStorage, now >>

\* the reply the responder gives in the specifications of the site
SiteReply == [text |-> ReplyText, emotion |-> "anxious"]

\* the page is shown and its load effect has run
Loaded == page = "app" /\ messages # << >>

\* A browser that holds nothing of the site, showing a page other than /app, in
\* which the accounts log in and out, open and leave /app, type while the
\* responder is down, and clear the chat.
SiteInit ==
  /\ AppState
  /\ synthSupported
  /\ isLoggedIn = FALSE
  /\ user = "null"
  /\ page = "index"
  /\ now = 0
  /\ quotaExceeded = FALSE
  /\ localStorage = EmptyStore
  /\ savedConversations = NoItem
  /\ messages = << >>
  /\ voiceSettings = InitialVoiceSettings
  /\ voices = InstalledVoices
  /\ emotionProps = << >>

SiteNext ==
  \/ \E u \in Users : login(u)
  \/ logout
  \/ authLogout
  \/ OpenApp
  \/ Unload
  \/ (page = "app" /\ LoadEffect)
  \/ (Loaded /\ Len(messages) < MaxLog /\ \E m \in Texts : TextSubmit(m))
  \/ (Loaded /\ toggleInputMode)
  \/ (Loaded /\ clearChat)
  \/ (page = "app" /\ \E t \in Turns : ResponderFail(t, "network"))

SiteSpec == SiteInit /\ [][SiteNext]_vars

\* One account using the site on successive days: it opens and leaves /app,
\* types, gets replies and clears the chat while the clock advances.
CalendarInit ==
  /\ AppState
  /\ synthSupported
  /\ isLoggedIn = TRUE
  /\ user = "u1"
  /\ page = "index"
  /\ now = 0
  /\ quotaExceeded = FALSE
  /\ localStorage = LoggedInStore(EmptyStore, "u1")
  /\ savedConversations = NoItem
  /\ messages = << >>
  /\ voiceSettings = InitialVoiceSettings
  /\ voices = InstalledVoices
  /\ emotionProps = << >>

CalendarNext ==
  \/ OpenApp
  \/ Unload
  \/ Tick
  \/ (page = "app" /\ LoadEffect)
  \/ (Loaded /\ Len(messages) < MaxLog /\ \E m \in Texts : TextSubmit(m))
  \/ (Loaded /\ toggleInputMode)
  \/ (Loaded /\ clearChat)
  \/ (page = "app" /\ \E t \in Turns : ResponderFail(t, "network"))
  \/ (page = "app" /\ \E t \in Turns : ResponderReply(t, SiteReply))
  \/ (page = "app" /\ UtteranceEnd)

CalendarSpec == CalendarInit /\ [][CalendarNext]_vars

\* One account opening and leaving /app, typing, getting replies and clearing
\* the chat in a browser whose storage quota may run out at any moment.
QuotaNext ==
  \/ OpenApp
  \/ Unload
  \/ StorageFills
  \/ (page = "app" /\ LoadEffect)
  \/ (Loaded /\ Len(messages) < MaxLog /\ \E m \in Texts : TextSubmit(m))
  \/ (Loaded /\ toggleInputMode)
  \/ (Loaded /\ clearChat)
  \/ (page = "app" /\ \E t \in Turns : ResponderFail(t, "network"))
  \/ (page = "app" /\ \E t \in Turns : ResponderReply(t, SiteReply))
  \/ (page = "app" /\ UtteranceEnd)

QuotaSpec == CalendarInit /\ [][QuotaNext]_vars

\* ---------------------------------------------------------------- sign-in
\* LoginPage.handleEmailLogin once Firebase has accepted the credentials (and
\* handleGoogleLogin after useAuth.signInWithGoogle): the two session keys are
\* written and navigate('/app') shows the session page inside the running
\* application.  UserSessionProvider stays mounted across the navigation, so
\* its checkSession effect does not run again and nothing sets the context's
\* user.  A throwing setItem is caught and the login page stays.
handleEmailLogin(u) ==
  /\ page = "index"
  /\ IF quotaExceeded
     THEN UNCHANGED << localStorage, page >>
     ELSE /\ localStorage' = LoggedInStore(localStorage, u)
          /\ page' = "app"
  /\ UNCHANGED << appVars, isLoggedIn, user, now, quotaExceeded >>

\* the session page is shown and its load effect, if its guard holds, has run
Settled == page = "app" /\ (isLoggedIn => messages # << >>)

\* The accounts sign in on the login page, use the session page, leave it,
\* reload it and log out.
SignInNext ==
  \/ \E u \in Users : handleEmailLogin(u)
  \/ logout
  \/ OpenApp
  \/ Unload
  \/ (page = "app" /\ LoadEffect)
  \/ (Settled /\ Len(messages) < MaxLog /\ \E m \in Texts : TextSubmit(m))
  \/ (Settled /\ toggleInputMode)
  \/ (Settled /\ clearChat)
  \/ (page = "app" /\ \E t \in Turns : ResponderFail(t, "network"))

SignInSpec == SiteInit /\ [][SignInNext]_vars

\* ---------------------------------------------------------------- stand-alone voice components
\* SimpleVoiceInterface, HybridVoiceInterface and ActualVoiceInterface drive a
\* SpeechRecognition object; RealVoiceInterface records with a MediaRecorder
\* and sends the audio to /api/v1/process.  Each takes onTextSubmit,
\* isProcessing and isSpeaking from its parent.
ListenWidgets == { "simple", "hybrid", "actual" }

\* the state of the page, which the components do not touch
pageVars == << messages, sessionState, isLoggedIn, turnVars, synthVars, probeVars, captureVars,
              recog, ttsVars, voiceSettings, envVars, siteVars >>

\* the round button's disabled={isProcessing || isSpeaking}
WidgetButtonEnabled == ~(sessionState.isProcessing \/ sessionState.isSpeaking)

\* The parent renders again with a new onTextSubmit function: the
\* initialisation effect, which has no cleanup, runs again and puts a new
\* recognizer into recognitionRef; the one it replaces keeps its handlers and
\* its state.  Without SpeechRecognition the effect only reports that.
Rerender ==
  /\ widget \in ListenWidgets
  /\ IF recognitionRef # 0
     THEN /\ recognitionRef < MaxRecognizers
          /\ recognitionRef' = recognitionRef + 1
          /\ recognizers' = [recognizers EXCEPT ![recognitionRef + 1] = "idle"]
          /\ UNCHANGED << error, showTextInput >>
     ELSE /\ error' = IF widget = "simple" THEN error ELSE << "unsupported" >>
          /\ showTextInput' = IF widget = "hybrid" THEN TRUE ELSE showTextInput
          /\ UNCHANGED << recognitionRef, recognizers >>
  /\ UNCHANGED << widget, isRecording, transcript, speechRecognitionFailed, submittedTexts,
                  recorderVars, pageVars >>

\* startListening: the button's handler while isRecording is false.  start()
\* throws InvalidStateError on a recognizer that is already started.
startListening ==
  /\ widget \in ListenWidgets
  /\ WidgetButtonEnabled
  /\ ~isRecording
  /\ IF recognitionRef # 0 /\ ~(widget = "hybrid" /\ speechRecognitionFailed)
     THEN LET throws == recognizers[recognitionRef] # "idle" IN
          /\ transcript' = << >>
          /\ recognizers' = IF throws THEN recognizers
                            ELSE [recognizers EXCEPT ![recognitionRef] = "starting"]
          /\ error' = IF widget = "simple" THEN error
                      ELSE IF throws THEN << "start" >> ELSE << >>
          /\ showTextInput' = IF widget = "hybrid" THEN throws ELSE showTextInput
     ELSE /\ error' = IF widget = "simple" THEN error ELSE << "unavailable" >>
          /\ showTextInput' = IF widget = "hybrid" THEN TRUE ELSE showTextInput
          /\ UNCHANGED << transcript, recognizers >>
  /\ UNCHANGED << widget, isRecording, speechRecognitionFailed, recognitionRef, submittedTexts,
                  recorderVars, pageVars >>

\* stopListening: the button's handler while isRecording is true; stop() on a
\* recognizer that is not started does nothing
stopListening ==
  /\ widget \in ListenWidgets
  /\ WidgetButtonEnabled
  /\ isRecording
  /\ recognitionRef # 0
  /\ recognizers' = IF recognizers[recognitionRef] \in { "starting", "capturing" }
                    THEN [recognizers EXCEPT ![recognitionRef] = "stopping"]
                    ELSE recognizers
  /\ isRecording' = IF widget = "simple" THEN FALSE ELSE isRecording
  /\ UNCHANGED << widget, transcript, error, showTextInput, speechRecognitionFailed,
                  recognitionRef, submittedTexts, recorderVars, pageVars >>

\* recognizer r's onstart
OnStart(r) ==
  /\ recognizers[r] = "starting"
  /\ recognizers' = [recognizers EXCEPT ![r] = "capturing"]
  /\ isRecording' = TRUE
  /\ error' = IF widget = "simple" THEN error ELSE << >>
  /\ speechRecognitionFailed' = IF widget = "hybrid" THEN FALSE ELSE speechRecognitionFailed
  /\ UNCHANGED << widget, transcript, showTextInput, recognitionRef, submittedTexts,
                  recorderVars, pageVars >>

\* recognizer r's onresult with an interim result
OnInterimResult(r, tr) ==
  /\ recognizers[r] = "capturing"
  /\ transcript' = tr
  /\ UNCHANGED << widget, isRecording, error, showTextInput, speechRecognitionFailed,
                  recognitionRef, recognizers, submittedTexts, recorderVars, pageVars >>

\* recognizer r's onresult with a final result: onTextSubmit, setTranscript('');
\* with continuous = false the recognizer ends after it
OnFinalResult(r, tr) ==
  /\ recognizers[r] \in { "capturing", "stopping" }
  /\ recognizers' = [recognizers EXCEPT ![r] = "ending"]
  /\ submittedTexts' = submittedTexts \cup { tr }
  /\ transcript' = << >>
  /\ UNCHANGED << widget, isRecording, error, showTextInput, speechRecognitionFailed,
                  recognitionRef, recorderVars, pageVars >>

\* recognizer r's onerror
OnError(r, kind) ==
  /\ recognizers[r] \in { "starting", "capturing", "stopping" }
  /\ recognizers' = [recognizers EXCEPT ![r] = "ending"]
  /\ isRecording' = FALSE
  /\ speechRecognitionFailed' = IF widget = "hybrid" THEN TRUE ELSE speechRecognitionFailed
  /\ error' = IF widget = "simple" THEN error ELSE << kind >>
  /\ showTextInput' = IF widget = "hybrid" /\ kind # "not-allowed" THEN TRUE ELSE showTextInput
  /\ UNCHANGED << widget, transcript, recognitionRef, submittedTexts, recorderVars, pageVars >>

\* recognizer r's onend
OnEnd(r) ==
  /\ recognizers[r] \in { "stopping", "ending" }
  /\ recognizers' = [recognizers EXCEPT ![r] = "idle"]
  /\ isRecording' = FALSE
  /\ UNCHANGED << widget, transcript, error, showTextInput, speechRecognitionFailed,
                  recognitionRef, submittedTexts, recorderVars, pageVars >>

\* One of the three components mounted, in a browser with or without
\* SpeechRecognition: the initialisation effect has run once.
ListenInit ==
  /\ PageState
  /\ isLoggedIn = TRUE
  /\ OpenedPage
  /\ synthSupported
  /\ widget \in ListenWidgets
  /\ recognitionRef \in { 0, 1 }
  /\ recognizers = [r \in 1..MaxRecognizers |-> IF r = recognitionRef THEN "idle" ELSE "unborn"]
  /\ error = IF recognitionRef = 0 /\ widget # "simple" THEN << "unsupported" >> ELSE << >>
  /\ showTextInput = (recognitionRef = 0 /\ widget = "hybrid")
  /\ isRecording = FALSE
  /\ transcript = << >>
  /\ speechRecognitionFailed = FALSE
  /\ submittedTexts = {}
  /\ isProcessingAudio = FALSE
  /\ mediaRecorderRef = "null"
  /\ micRequests = 0
  /\ transcriptions = 0

ListenNext ==
  \/ Rerender
  \/ startListening
  \/ stopListening
  \/ \E r \in 1..MaxRecognizers : OnStart(r)
  \/ \E r \in 1..MaxRecognizers : \E tr \in Transcripts : OnInterimResult(r, tr)
  \/ \E r \in 1..MaxRecognizers : \E tr \in Transcripts : OnFinalResult(r, tr)
  \/ \E r \in 1..MaxRecognizers : \E k \in RecognitionErrors : OnError(r, k)
  \/ \E r \in 1..MaxRecognizers : OnEnd(r)

ListenSpec == ListenInit /\ [][ListenNext]_vars

\* ---------------------------------------------------------------- RealVoiceInterface
\* the texts processAudio shows in the transcript box
ProcessingText == << "processing" >>
NotUnderstoodText == << "not understood" >>
ProcessingErrorText == << "processing error" >>

\* startRecording up to the awaited getUserMedia; the button is disabled
\* while isProcessing || isSpeaking || isProcessingAudio
realStartRecording ==
  /\ widget = "real"
  /\ WidgetButtonEnabled
  /\ ~isProcessingAudio
  /\ ~isRecording
  /\ micRequests + transcriptions
       + (IF mediaRecorderRef \in { "recording", "stopping" } THEN 1 ELSE 0) < MaxStarts
  /\ micRequests' = micRequests + 1
  /\ UNCHANGED << listenVars, isProcessingAudio, mediaRecorderRef, transcriptions, pageVars >>

\* getUserMedia resolved: a new MediaRecorder is put into the ref and started;
\* a stop event queued before that is dispatched first
realMicGranted ==
  /\ micRequests > 0
  /\ mediaRecorderRef # "stopping"
  /\ micRequests' = micRequests - 1
  /\ mediaRecorderRef' = "recording"
  /\ isRecording' = TRUE
  /\ UNCHANGED << widget, transcript, error, showTextInput, speechRecognitionFailed,
                  recognitionRef, recognizers, submittedTexts, isProcessingAudio,
                  transcriptions, pageVars >>

\* getUserMedia rejected: console.error and alert
realMicDenied ==
  /\ micRequests > 0
  /\ micRequests' = micRequests - 1
  /\ UNCHANGED << listenVars, isProcessingAudio, mediaRecorderRef, transcriptions, pageVars >>

\* processAudio: setIsProcessingAudio(true), the status text, the FileReader
\* started, and the finally block, which runs as soon as readAsDataURL has
\* returned; the fetch is sent from the reader's onloadend
processAudio ==
  /\ isProcessingAudio' = FALSE
  /\ transcript' = ProcessingText
  /\ transcriptions' = transcriptions + 1

\* stopRecording, the button's handler while isRecording is true
realStopRecording ==
  /\ widget = "real"
  /\ WidgetButtonEnabled
  /\ ~isProcessingAudio
  /\ isRecording
  /\ mediaRecorderRef = "recording"
  /\ mediaRecorderRef' = "stopping"
  /\ isRecording' = FALSE
  /\ UNCHANGED << widget, transcript, error, showTextInput, speechRecognitionFailed,
                  recognitionRef, recognizers, submittedTexts, isProcessingAudio, micRequests,
                  transcriptions, pageVars >>

\* the recorder's onstop, which calls processAudio
RecorderStopped ==
  /\ mediaRecorderRef = "stopping"
  /\ mediaRecorderRef' = "inactive"
  /\ processAudio
  /\ UNCHANGED << widget, isRecording, error, showTextInput, speechRecognitionFailed,
                  recognitionRef, recognizers, submittedTexts, micRequests, pageVars >>

\* the response of /api/v1/process: a transcript, a body without one, or a
\* failure (status not ok, rejected fetch)
TranscriptionOutcomes == { "transcript", "empty", "failed" }

\* the continuation of the fetch in the reader's onloadend
Transcribed(outcome, tr) ==
  /\ transcriptions > 0
  /\ transcriptions' = transcriptions - 1
  /\ transcript' = IF outcome = "transcript" THEN << >>
                   ELSE IF outcome = "empty" THEN NotUnderstoodText ELSE ProcessingErrorText
  /\ submittedTexts' = IF outcome = "transcript" THEN submittedTexts \cup { tr } ELSE submittedTexts
  /\ UNCHANGED << widget, isRecording, error, showTextInput, speechRecognitionFailed,
                  recognitionRef, recognizers, isProcessingAudio, mediaRecorderRef,
                  micRequests, pageVars >>

\* RealVoiceInterface mounted
RecorderInit ==
  /\ PageState
  /\ isLoggedIn = TRUE
  /\ OpenedPage
  /\ synthSupported
  /\ widget = "real"
  /\ WidgetState

RecorderNext ==
  \/ realStartRecording
  \/ realMicGranted
  \/ realMicDenied
  \/ realStopRecording
  \/ RecorderStopped
  \/ \E o \in TranscriptionOutcomes : \E tr \in Texts \ { << >> } : Transcribed(o, tr)

RecorderSpec == RecorderInit /\ [][RecorderNext]_vars

\* ---------------------------------------------------------------- properties
IsPrefix(a, b) == Len(a) <= Len(b) /\ SubSeq(b, 1, Len(a)) = a

\* positions of the messages of turn t with the given type
Positions(log, ty, t) == { i \in DOMAIN log : log[i].type = ty /\ log[i].turn = t }

\* invocations of sendToBackend that have not returned
InFlight == { t \in Turns : pc[t] \in { "fetch", "lost", "speaking" } }

\* Turn numbers follow the order in which the user messages were appended, so
\* a log is in turn order when its system messages carry non-decreasing turn
\* numbers and each follows the user message of its turn.
OrderedLog(log) ==
  /\ \A i, j \in DOMAIN log :
       (i < j /\ log[i].type = "system" /\ log[j].type = "system" /\ log[i].turn > 0)
         => log[i].turn <= log[j].turn
  /\ \A t \in Turns : \A i \in Positions(log, "user", t) : \A j \in Positions(log, "system", t) :
       i < j

\* C1: over user inputs and responder completions the log only grows by
\* appending, every reply or apology follows the user message of its turn, and
\* the system messages are in the order of the user messages they answer
\* (clearChat, which resets the log, is not one of those steps).
C1_AppendInTurnOrder ==
  [][ /\ (messages' # << welcomeMessage >> => IsPrefix(messages, messages'))
      /\ OrderedLog(messages') ]_vars

\* the chat was cleared after turn t began, or a newer turn has begun
Superseded(t) ==
  \/ Positions(messages, "user", t) = {}
  \/ nextTurn > t

\* C2: a responder result arriving for a turn that has been superseded (chat
\* cleared, or a newer turn started) changes neither the log nor sessionState.
C2_StaleResultDiscarded ==
  [][ \A t \in Turns :
        (pc[t] = "fetch" /\ pc'[t] \notin { "fetch", "lost" } /\ Superseded(t))
          => (messages' = messages /\ sessionState' = sessionState) ]_vars

\* C3: isListening and isSpeaking are never both true.
C3_ListenSpeakExclusive == ~(sessionState.isListening /\ sessionState.isSpeaking)

\* a call of sendToBackend returned through its catch block
FailureTaken == \E t \in Turns : pc[t] \in { "failed", "threw" }

\* nothing is in flight: no request, no utterance, no probe, no microphone
\* request, no recording being analysed, no generated voice, no recognizer event
NothingPending ==
  /\ InFlight = {}
  /\ synthQueue = << >> /\ synthCancelled = {}
  /\ probes = 0
  /\ grants.live + grants.dead = 0
  /\ blobs.live + blobs.dead = 0
  /\ ~isGeneratingVoice /\ ~audioPlaying
  /\ recog = "idle"

\* no recorder is recording
NoCaptureOpen == mediaRecorder # "recording" /\ orphanStreams = 0

AllIdle ==
  /\ ~sessionState.isListening
  /\ ~sessionState.isProcessing
  /\ ~sessionState.isSpeaking

\* C4: after a failure the session comes to rest, without user action, with
\* isListening, isProcessing and isSpeaking all false: once a failure path has
\* been taken and nothing is pending or capturing, the three flags are false.
C4_IdleAfterFailure == (FailureTaken /\ NothingPending /\ NoCaptureOpen) => AllIdle

\* C5: the step in which the responder call of turn t fails appends exactly
\* one message, the apology of turn t, behind the user message of that turn,
\* sets connectionStatus to 'disconnected' and error to a non-null message, and
\* leaves isProcessing false.
C5_ResponderFailure ==
  [][ \A t \in Turns :
        (pc[t] = "fetch" /\ pc'[t] = "failed")
          => /\ messages' = Append(messages, Msg("system", t, ApologyText, NoEmotion))
             /\ \A i \in Positions(messages', "user", t) : i < Len(messages')
             /\ sessionState'.connectionStatus = "disconnected"
             /\ sessionState'.error # "null"
             /\ ~sessionState'.isProcessing ]_vars

\* C5 witness: the responder call of a turn has failed, its apology sits
\* right behind its user message, the connection is marked disconnected, the
\* error holds the failure and isProcessing is false.
C5_Witness ==
  \E t \in Turns :
    /\ pc[t] = "failed"
    /\ Len(messages) >= 2
    /\ messages[Len(messages)] = Msg("system", t, ApologyText, NoEmotion)
    /\ messages[Len(messages) - 1].type = "user" /\ messages[Len(messages) - 1].turn = t
    /\ sessionState.connectionStatus = "disconnected"
    /\ sessionState.error \in ResponderFailures
    /\ ~sessionState.isProcessing

\* the steps invocation t of sendToBackend can take
TurnStep(t) ==
  \/ \E k \in ResponderFailures : ResponderFail(t, k)
  \/ \E r \in Replies : ResponderReply(t, r)
  \/ (synthQueue # << >> /\ Head(synthQueue) = t /\ (UtteranceEnd \/ UtteranceError))
  \/ UtteranceCancelled(t)

\* C6: a request does not hang: an invocation of sendToBackend that has not
\* returned can always take a further step (a response, or failing that the
\* timeout), so isProcessing does not stay true for ever.
C6_RequestTimesOut ==
  \A t \in Turns : (t \in InFlight) => ENABLED TurnStep(t)

\* C7: at most one synthesis (utterance or generated audio) is active, and no
\* utterance is cancelled by a later synthesis request.
C7_SingleSynthesis ==
  /\ Len(synthQueue) + (IF audioPlaying THEN 1 ELSE 0) <= 1
  /\ synthCancelled = {}

\* C8: no turn begins (user message appended, request issued) while an
\* earlier turn is awaiting its reply or being spoken.
C8_OneTurnInFlight ==
  [][ \A t \in Turns :
        (pc[t] = "none" /\ pc'[t] = "fetch")
          => ~(sessionState.isProcessing \/ sessionState.isSpeaking) ]_vars

\* the mounted voice interface finished analysing a recording in this step
CaptureCompleted ==
  /\ blobs'.live = blobs.live - 1
  /\ blobs'.dead = blobs.dead
  /\ voiceAnalysis' # voiceAnalysis

\* C9: in voice mode, when a capture completes with a transcript, a user
\* message carrying that transcript is appended and one request is issued.
C9_TranscriptBecomesTurn ==
  [][ CaptureCompleted
        => /\ nextTurn' = nextTurn + 1
           /\ messages' = Append(messages, Msg("user", nextTurn', voiceAnalysis'.transcript, NoEmotion))
           /\ pc'[nextTurn'] = "fetch" ]_vars

\* C10: in text mode a successful reply is appended and the turn ends without
\* synthesis: isSpeaking does not become true and no utterance is started.
C10_TextModeSilent ==
  [][ \A t \in Turns :
        (sessionState.inputMode = "text" /\ pc[t] = "fetch"
           /\ pc'[t] \in { "speaking", "replied", "threw" })
          => /\ pc'[t] = "replied"
             /\ sessionState'.isSpeaking = sessionState.isSpeaking
             /\ synthQueue' = synthQueue ]_vars

\* C11: synthesis is only started for the text of a system message that is in
\* the log: an utterance begins for turn t only when the reply of turn t is in
\* the log, and the speak button requests audio only for a last message that
\* is a system message.
C11_SynthesisOfLoggedReply ==
  [][ /\ \A t \in Turns :
           (pc[t] # "speaking" /\ pc'[t] = "speaking")
             => \E i \in DOMAIN messages' :
                  messages'[i].type = "system" /\ messages'[i].turn = t
      /\ (~isGeneratingVoice /\ isGeneratingVoice')
           => (messages # << >> /\ messages[Len(messages)].type = "system") ]_vars

\* the (rate, volume, pitch) the lookup table assigns to a known emotion tag
TableTuple(e) == [rate |-> emotionVoiceConfigs[e].rate,
                  volume |-> emotionVoiceConfigs[e].volume,
                  pitch |-> emotionVoiceConfigs[e].pitch]

\* C12: the utterance started for a successful reply carries the rate, pitch
\* and volume the emotion lookup table assigns to the reply's emotion tag.
C12_ReplyVoiceFollowsEmotion ==
  [][ \A t \in Turns :
        (pc[t] = "fetch" /\ pc'[t] = "speaking"
           /\ messages'[Len(messages')].emotion \in KnownEmotions)
          => [rate |-> utterance'.rate, volume |-> utterance'.volume, pitch |-> utterance'.pitch]
               = TableTuple(messages'[Len(messages')].emotion) ]_vars

\* the tuple the voice settings hold
SettingsTuple == [rate |-> voiceSettings.rate, volume |-> voiceSettings.volume,
                  pitch |-> voiceSettings.pitch]

\* the tuple selected for a tag: its table entry, or the neutral tuple
\* (rate 180, volume 0.9, pitch 1.0) for an unknown or absent tag
SelectedTuple(tag) == IF tag \in KnownEmotions THEN TableTuple(tag)
                      ELSE [rate |-> 180, volume |-> 90, pitch |-> 100]

\* C13: after any sequence of emotion tags the voice settings are the tuple
\* selected for the latest tag: its table entry when the tag is known, the
\* neutral tuple when it is unknown or absent.
C13_VoiceFallbackTotal ==
  emotionProps # << >> => SettingsTuple = SelectedTuple(emotionProps[Len(emotionProps)])

\* the voices of the catalog that one of speakText's searches accepts
PreferredVoices ==
  { v \in VoiceCatalog : priorityTest[v] \/ femaleTest[v] \/ alternativeTest[v] }

\* C14: for every list of voices, the empty one included, speakText's voice
\* selection raises no error and leaves the utterance configured: with a
\* preferred voice of the list when there is one, otherwise with the engine's
\* default voice and a raised pitch; rate 0.9 and volume 0.8 in both cases.
C14_VoiceSelectionTotal ==
  /\ \A t \in Turns : pc[t] # "threw"
  /\ utterance # NoUtterance
       => /\ utterance.rate = 90
          /\ utterance.volume = 80
          /\ IF \E i \in DOMAIN voices : voices[i] \in PreferredVoices
             THEN \E i \in DOMAIN voices :
                    voices[i] \in PreferredVoices /\ utterance.voice = voices[i].name
             ELSE utterance.voice = DefaultVoice /\ utterance.pitch > 100

\* C14 witness: a reply is being spoken by an utterance that was configured
\* while the list of voices was empty.
C14_Witness ==
  /\ voices = << >>
  /\ \E t \in Turns : pc[t] = "speaking"
  /\ utterance = [voice |-> DefaultVoice, pitch |-> 140, rate |-> 90, volume |-> 80]

\* C15: stop with no capture active is a no-op: stopRecording while the
\* recorder is not recording, and the stop branch of handleVoiceSphereClick
\* while the recognizer is not listening, change no variable (so no callback
\* has run and nothing was thrown).
C15_StopWhileIdleIsNoOp ==
  [][ /\ (stopRecording /\ mediaRecorder # "recording") => UNCHANGED vars
      /\ (handleVoiceSphereClick /\ sessionState.isListening /\ recog # "listening")
           => UNCHANGED vars ]_vars

\* C15 witness: the capture button shows "stop" (isListening is true and the
\* button is enabled) while the interface's recorder is not recording and the
\* recognizer is not listening, so a click calls stop with no capture active.
C15_Witness ==
  /\ CaptureButtonEnabled
  /\ sessionState.isListening
  /\ mediaRecorder # "recording"
  /\ recog # "listening"

\* C16: once the user has stopped a recognizer capture that had delivered no
\* transcript, the recognizer's next event appends no message and starts no
\* request.
C16_StoppedCaptureDiscarded ==
  [][ (recog = "stopping" /\ recog' # "stopping")
        => (messages' = messages /\ nextTurn' = nextTurn /\ pc' = pc) ]_vars

\* capture streams that are open: recorders recording (the one the interface
\* holds and those no ref points to) and a recognizer that is capturing
OpenCaptures ==
  (IF mediaRecorder = "recording" THEN 1 ELSE 0) + orphanStreams
    + (IF recog \in { "listening", "stopping" } THEN 1 ELSE 0)

\* C17: at most one capture stream is open at any time.
C17_SingleCapture == OpenCaptures <= 1

\* C18: whenever isListening is false no capture handle is open.
C18_NoCaptureWhenNotListening == ~sessionState.isListening => OpenCaptures = 0

\* a processAudioBlob call returned in this step: it submitted the empty text
BlankSubmitted == blobs'.live + blobs'.dead < blobs.live + blobs.dead

\* invocations of sendToBackend that have returned
Returned == { "replied", "failed", "threw" }

\* C19: submitting text that trims to nothing changes neither the log nor
\* sessionState nor any turn; a submission of other text appends exactly one
\* user message, carrying that text, in the step that issues the request, and
\* issues exactly one request; a failed request is not issued again.
C19_SubmitOnce ==
  [][ /\ BlankSubmitted
           => (messages' = messages /\ sessionState' = sessionState /\ turnVars' = turnVars)
      /\ \A t \in Turns :
           /\ (pc[t] # "fetch" /\ pc'[t] = "fetch")
                => /\ pc[t] = "none"
                   /\ nextTurn' = t /\ nextTurn = t - 1
                   /\ \A u \in Turns \ { t } : pc'[u] = pc[u]
                   /\ Len(messages') = Len(messages) + 1
                   /\ IsPrefix(messages, messages')
                   /\ messages'[Len(messages')].type = "user"
                   /\ messages'[Len(messages')].turn = t
                   /\ Trim(messages'[Len(messages')].content) # << >>
           /\ (pc[t] = "fetch" /\ pc'[t] = "failed")
                => (nextTurn' = nextTurn /\ \A u \in Turns \ { t } : pc'[u] = pc[u])
           /\ (pc[t] \in Returned) => pc'[t] = pc[t] ]_vars

\* C19 witness: text of non-zero trimmed length has just been submitted: the
\* last message is the user message of a turn whose request is in flight.
C19_Witness ==
  \E t \in Turns :
    /\ pc[t] = "fetch"
    /\ nextTurn = t
    /\ messages[Len(messages)] = Msg("user", t, << "a" >>, NoEmotion)
    /\ sessionState.isProcessing

\* C20: once a stored non-empty log has been loaded, the displayed log is the
\* welcome-back system message followed by the stored log when no stored
\* message is dated today, and the stored log itself when one is.
C20_LoadedLog ==
  (messages # << >> /\ savedConversations.kind = "json" /\ savedConversations.log # << >>)
    => IF \E i \in 1..Len(savedConversations.log) :
            toDateString(savedConversations.log[i].timestamp) = Today
         THEN messages = savedConversations.log
         ELSE /\ Len(messages) = Len(savedConversations.log) + 1
              /\ messages[1].type = "system"
              /\ messages[1] = welcomeBackMessage
              /\ Tail(messages) = savedConversations.log

\* C20 witness: both cases have been loaded from a stored log of two
\* messages; this is the one with no message dated today.
C20_Witness ==
  /\ savedConversations.kind = "json"
  /\ Len(savedConversations.log) = 2
  /\ \A i \in 1..2 : toDateString(savedConversations.log[i].timestamp) # Today
  /\ messages = << welcomeBackMessage >> \o savedConversations.log

\* the log stored for a user (empty when nothing is stored)
StoredLog(u) == localStorage[ConversationsKey(u)].log

\* no two messages of the log carry the same id
DistinctIds(log) == \A i, j \in 1..Len(log) : i # j => log[i].id # log[j].id

\* C21: in the in-memory log and in every stored log, message ids are
\* pairwise distinct.
C21_IdsUnique == DistinctIds(messages) /\ \A u \in Users : DistinctIds(StoredLog(u))

\* list order agrees with timestamp order
TimeOrdered(log) == \A i, j \in 1..Len(log) : i < j => log[i].timestamp <= log[j].timestamp

\* C22: in the in-memory log and in every stored log, messages appear in
\* non-decreasing timestamp order.
C22_TimestampOrder == TimeOrdered(messages) /\ \A u \in Users : TimeOrdered(StoredLog(u))

\* the "Clear Chat" button of the loaded page
ClearStep == Loaded /\ clearChat

\* C23: a clearChat step leaves, in memory and under the current user's key,
\* nothing but the one greeting it creates (under the key nothing at all when
\* the write fails): no entry of a turn and no second greeting remains; every
\* other key of the storage, the other users' logs among them, is unchanged.
C23_ClearChatFrame ==
  [][ ClearStep =>
        /\ messages' = << welcomeMessage >>
        /\ \A i \in 1..Len(messages') : messages'[i].turn = 0
        /\ StoredLog(user)' \in { << >>, << welcomeMessage >> }
        /\ \A k \in Keys \ { ConversationsKey(user) } : localStorage'[k] = localStorage[k] ]_vars

\* C23 witness: u1 has cleared a log that held the user message of a turn of
\* this visit, and its stored log is the greeting alone, while u2's stored log
\* still holds the messages of a turn.
C23_Witness ==
  /\ Loaded
  /\ user = "u1"
  /\ nextTurn > 0
  /\ messages = << welcomeMessage >>
  /\ StoredLog("u1") = << welcomeMessage >>
  /\ Len(StoredLog("u2")) > 1

\* every entry of old is in new, in the same order and next to each other
IsSubLog(old, new) ==
  \E k \in 0..(Len(new) - Len(old)) : SubSeq(new, k + 1, k + Len(old)) = old

C25_StorageFailureTolerated == page # "blank"

\* C26: while connectionStatus is not 'connected' and no probe is in flight,
\* a probe is issued again sooner or later, whatever the user does or does not
\* do; and no probe is issued while connectionStatus is 'connected'.
C26_ProbeRepeats ==
  /\ (sessionState.connectionStatus # "connected" /\ probes = 0)
       ~> (probes > 0 \/ sessionState.connectionStatus = "connected")
  /\ [][ sessionState.connectionStatus = "connected" => probes' <= probes ]_vars

\* C27: the step in which a probe completes sets connectionStatus to
\* 'connected' exactly when the response status was 2xx; for a non-2xx status,
\* a network failure and the 5 s abort it sets 'disconnected' and an error.
C27_ProbeOutcome ==
  [][ \A o \in ProbeOutcomes :
        ProbeDone(o) =>
          /\ sessionState'.connectionStatus = "connected" <=> o = "ok"
          /\ o # "ok" => /\ sessionState'.connectionStatus = "disconnected"
                         /\ sessionState'.error # "null" ]_vars

\* C27 witness: a probe has completed with a non-2xx response
C27_Witness ==
  /\ probes = 0
  /\ sessionState.connectionStatus = "disconnected"
  /\ sessionState.error = "probe-notok"

\* C28: in voice mode the control that switches to text input is enabled.
C28_TextFallbackAvailable == sessionState.inputMode = "voice" => ENABLED toggleInputMode

\* C29: the step of a recognition error, whatever its kind, sets isListening
\* to false and error to the kind's message, changes nothing else of
\* sessionState, appends no message and issues no request.
C29_RecognitionErrorUniform ==
  [][ \A k \in RecognitionErrors :
        RecognitionError(k) =>
          /\ sessionState' = [sessionState EXCEPT !.isListening = FALSE, !.error = k]
          /\ sessionState'.error # "null"
          /\ messages' = messages
          /\ turnVars' = turnVars ]_vars

\* C29 witness: the recognizer has reported that the microphone is not
\* allowed: listening is off and the error is on display.
C29_Witness ==
  /\ recog = "ending"
  /\ ~sessionState.isListening
  /\ sessionState.error = "not-allowed"

\* C30: the step in which getUserMedia is refused, or is missing, leaves an
\* error in sessionState, isListening false and no capture open.
C30_CaptureFailureSurfaced ==
  [][ \A inst \in Instances :
        MicDenied(inst) =>
          /\ sessionState'.error # "null"
          /\ ~sessionState'.isListening
          /\ OpenCaptures' = 0 ]_vars

\* C32: a 2xx response whose JSON body has no reply text ends the turn as a
\* failure: the apology is appended and the connection is marked disconnected.
C32_EmptyReplyIsFailure ==
  [][ \A t \in Turns :
        ResponderReply(t, [text |-> << >>, emotion |-> NoEmotion]) =>
          /\ messages' = Append(messages, Msg("system", t, ApologyText, NoEmotion))
          /\ sessionState'.connectionStatus = "disconnected" ]_vars

\* C33: sessionState.error goes from set to null only in the step of a
\* successful probe or of a responder call that completes successfully.
C33_ErrorClearedBySuccess ==
  [][ (sessionState.error # "null" /\ sessionState'.error = "null") =>
        \/ ProbeDone("ok")
        \/ \E t \in Turns : pc[t] # "replied" /\ pc'[t] = "replied" ]_vars

\* C34: every turn whose sendToBackend has returned has exactly one system
\* message in the log, the reply or the apology.
C34_OneSystemMessagePerTurn ==
  \A t \in Turns : pc[t] \in Returned => Cardinality(Positions(messages, "system", t)) = 1

\* C36: connectionStatus becomes 'connected' only in the step of a successful
\* probe; it changes in no step other than a probe's completion and the catch
\* block of sendToBackend, so neither the reply nor the end of its speech
\* touches it; and it never goes back to 'connecting'.
C36_ConnectedOnlyByProbe ==
  [][ /\ (sessionState'.connectionStatus = "connected"
            /\ sessionState.connectionStatus # "connected") => ProbeDone("ok")
      /\ sessionState'.connectionStatus # sessionState.connectionStatus =>
            \/ \E o \in ProbeOutcomes : ProbeDone(o)
            \/ \E t \in Turns : pc[t] \in { "fetch", "speaking" } /\ pc'[t] \in { "failed", "threw" }
      /\ \A t \in Turns : (pc[t] # "replied" /\ pc'[t] = "replied") =>
            sessionState'.connectionStatus = sessionState.connectionStatus
      /\ sessionState.connectionStatus # "connecting" =>
            sessionState'.connectionStatus # "connecting" ]_vars

\* C36 witness: a reply arrived and was spoken after a responder failure had
\* marked the connection disconnected, and it is still disconnected.
C36_Witness ==
  /\ \E t \in Turns : pc[t] = "failed"
  /\ \E t \in Turns : pc[t] = "replied"
  /\ sessionState.connectionStatus = "disconnected"
  /\ probes = 0

\* recognizers that hold the microphone or have events to deliver
ActiveRecognizers == { r \in 1..MaxRecognizers : recognizers[r] \notin { "unborn", "idle" } }

\* C31: while no recognizer is capturing the interim transcript is empty.
C31_TranscriptEmptyWhenIdle == ActiveRecognizers = {} => transcript = << >>

\* C35: in HybridVoiceInterface a press of the start button whose recognizer
\* is idle starts that recognizer, also after a recognition error.
C35_StartAfterError ==
  [][ (widget = "hybrid" /\ recognitionRef # 0 /\ recognizers[recognitionRef] = "idle"
         /\ startListening) =>
        recognizers'[recognitionRef] = "starting" ]_vars

\* C37: while a recording is being transcribed isProcessingAudio is true.
C37_BusyWhileTranscribing == transcriptions > 0 => isProcessingAudio

\* C38: a recognizer that is starting or capturing is the one recognitionRef
\* points to, so stopListening reaches it.
C38_CapturingHasHandle ==
  \A r \in 1..MaxRecognizers : recognizers[r] \in { "starting", "capturing" } => r = recognitionRef

\* C39: while the session page is shown to a logged-in user with a non-empty
\* log, the item stored under that user's key is the serialized log.
C39_StoredLogCurrent ==
  (page = "app" /\ isLoggedIn /\ user # "null" /\ messages # << >>) =>
     localStorage[ConversationsKey(user)] = stringify(messages)

\* C39 witness: the user message and the apology of a failed turn are in the
\* log behind the welcome message, and the stored item holds the same log.
C39_Witness ==
  /\ page = "app"
  /\ isLoggedIn
  /\ Len(messages) >= 3
  /\ messages[1].id = "welcome"
  /\ \E i \in DOMAIN messages : messages[i].content = ApologyText
  /\ StoredLog(user) = messages

\* the user named by the stored session, or "null"
StoredUser ==
  IF localStorage[<< "voice_cbt_session" >>].kind = "active"
       /\ localStorage[<< "voice_cbt_user" >>].kind = "user"
  THEN localStorage[<< "voice_cbt_user" >>].log[1]
  ELSE "null"

\* C40: while the session page is shown and the storage holds an active
\* session with a user, the session context reports that user as logged in.
C40_ContextAgreesWithStorage ==
  (page = "app" /\ StoredUser # "null") => (isLoggedIn /\ user = StoredUser)
====
